---- MODULE Spec2Model ----
(***************************************************************************)
(* Client-side managers of Kanoon Ki Pechaan: DocumentManager              *)
(* (frontend/static/js/documents.js), ChatBot, LawyerNetwork and the       *)
(* shared Utils / API / Session helpers.                                    *)
(*                                                                         *)
(* The browser runs one page at a time on one thread.  An async handler    *)
(* runs synchronously up to its first await (one action), and resumes      *)
(* when the awaited request settles (another action).  A request in        *)
(* flight is an element of net, kept in issue order; requests settle in    *)
(* any order.  A GET of the documents carries the list the server read     *)
(* when it handled the request, and is delivered any time later; every     *)
(* other request takes its effect on the server when it settles.           *)
(*                                                                         *)
(* Every handler is an operator from the manager's state (a record of its  *)
(* fields and of the DOM regions it writes) to the state it leaves; the    *)
(* record also collects the alerts shown (alerts) and the requests issued  *)
(* (out) by that run of the handler.                                        *)
(***************************************************************************)
EXTENDS Integers, Sequences, FiniteSets

VARIABLES
    page,               \* which page is loaded: its manager is the one constructed
    net,                \* requests in flight, in issue order
    alerts,             \* Utils.showAlert calls of the latest handler run
    \* ---- server side of /documents
    srvDocs,            \* ids of the documents the server holds
    \* ---- DocumentManager
    currentDocuments,   \* this.currentDocuments
    uploadInProgress,   \* this.uploadInProgress
    documentsGrid,      \* #documentsGrid: spinner, or the rendered cards
    documentFile,       \* #documentFile: files[0] of the file input (NoFile: none)
    documentSearch,     \* #documentSearch .value
    typeFilter,         \* #typeFilter .value
    \* ---- server side of /chatbot
    srvSessions,        \* ids of the chat sessions the server holds
    srvNextId,          \* id the server gives the next session it creates
    \* ---- ChatBot
    currentSessionId,   \* this.currentSessionId (0: null)
    sessions,           \* this.sessions (the ids, in list order)
    isTyping,           \* this.isTyping
    chatSessions,       \* #chatSessions: the side panel
    chatMessages,       \* #chatMessages: base is the session whose history was
                        \* rendered (0: the welcome message), added the messages
                        \* added since; #chatTitle and the clear and export buttons
                        \* are written together with base and show the same session
    messageInput,       \* #messageInput .value, trimmed
    timers,             \* pending setTimeout callbacks of startCategoryChat
    \* ---- server side of /auth and /lawyers
    srvUser,            \* id of the logged-in user (0: nobody is logged in)
    srvName,            \* the name the server holds for that user
    srvConnections,     \* connection id -> status, of the connections to that user
    srvConn,            \* lawyer id -> status of that user's connection with the lawyer
    \* ---- Session and LawyerNetwork
    currentUser,        \* window.currentUser (NoUser: null)
    currentLawyers,     \* this.currentLawyers
    currentPage,        \* this.currentPage
    totalPages,         \* this.totalPages
    isLoading,          \* this.isLoading, of LawyerNetwork or of ProfileManager
    specializations,    \* this.specializations: the options of #specializationFilter
    specializationFilter, \* #specializationFilter .value
    lawyersGrid,        \* #lawyersGrid: the rendered cards
    paginationContainer, \* #paginationContainer: the items that carry data-page
    paginationListeners, \* 'click' listeners renderPagination has added to it
    profileModal,       \* #lawyerProfileModal and its #connectButton
    connectionModal,    \* #connectionModal and #selectedLawyerId
    \* ---- ProfileManager and the form handlers of Auth
    user,               \* ProfileManager.user (NoUser: null)
    connectionRequests, \* #connectionRequests: the panel, and the ids of the
                        \* requests rendered with Accept and Decline buttons
    profileRegions,     \* #connectionCount and #recentDocuments
    fieldErrors         \* fields FormHelpers.showFieldError marked by the latest
                        \* handler run

vars == <<page, net, alerts, srvDocs, currentDocuments, uploadInProgress,
          documentsGrid, documentFile, documentSearch, typeFilter,
          srvSessions, srvNextId, currentSessionId, sessions, isTyping,
          chatSessions, chatMessages, messageInput, timers,
          srvUser, srvConn, currentUser, currentLawyers, currentPage, totalPages,
          isLoading, specializations, specializationFilter, lawyersGrid,
          paginationContainer, paginationListeners, profileModal,
             connectionModal,
          srvName, srvConnections, user, connectionRequests, profileRegions,
          fieldErrors>>

accVars == <<srvName, srvConnections, user, connectionRequests, profileRegions,
             fieldErrors>>

lawVars == <<srvUser, srvConn, currentUser, currentLawyers, currentPage, totalPages,
             isLoading, specializations, specializationFilter, lawyersGrid,
             paginationContainer, paginationListeners, profileModal,
             connectionModal>>

chatVars == <<srvSessions, srvNextId, currentSessionId, sessions, isTyping,
              chatSessions, chatMessages, messageInput, timers>>

docVars == <<srvDocs, currentDocuments, uploadInProgress, documentsGrid,
             documentFile, documentSearch, typeFilter>>

(***************************************************************************)
(* Bounds                                                                  *)
(***************************************************************************)
MaxInFlight == 2        \* user events are taken while fewer requests are in flight
MaxDocs == 1            \* documents the server can hold
MaxFiles == 2           \* files of one drop / file-select event
MaxLen == 2             \* length of a title, summary or search term (SpecFilter)
MaxSessions == 2        \* chat sessions the server creates
MaxMessages == 2        \* messages added to #chatMessages by sends
MaxLawyers == 2         \* lawyers the server knows
MaxPages == 2           \* pages a lawyer search has
MaxConnections == 1     \* connections to the lawyer of the profile page
MaxListeners == 2       \* 'click' listeners of #paginationContainer that are counted

(***************************************************************************)
(* Sequence helpers                                                        *)
(***************************************************************************)
RECURSIVE SeqsUpTo(_, _)
SeqsUpTo(S, n) ==
    IF n = 0 THEN {<<>>}
    ELSE LET shorter == SeqsUpTo(S, n - 1)
         IN  shorter \cup {Append(q, x) : q \in {p \in shorter : Len(p) = n - 1}, x \in S}

RemoveAt(q, i) == SubSeq(q, 1, i - 1) \o SubSeq(q, i + 1, Len(q))

Range(q) == {q[i] : i \in 1..Len(q)}

RECURSIVE SortedSeq(_)
SortedSeq(S) ==
    IF S = {} THEN <<>>
    ELSE LET m == CHOOSE x \in S : \A y \in S : x <= y
         IN  <<m>> \o SortedSeq(S \ {m})

(***************************************************************************)
(* Strings are sequences of characters.                                     *)
(***************************************************************************)
Alphabet == {"l", "L", "e"}

\* String.prototype.toLowerCase, character by character
lowerChar(c) == IF c = "L" THEN "l" ELSE c

\* toLowerCase left out
toLowerCase_Identity(s) == s

toLowerCase(s) == [i \in 1..Len(s) |-> lowerChar(s[i])]

\* String.prototype.includes: t occurs in s at some position (always, when t is '')
RECURSIVE includesFrom(_, _, _)
includesFrom(s, t, pos) ==
    IF pos + Len(t) > Len(s) THEN FALSE
    ELSE IF SubSeq(s, pos + 1, pos + Len(t)) = t THEN TRUE
    ELSE includesFrom(s, t, pos + 1)

includes(s, t) == includesFrom(s, t, 0)

(***************************************************************************)
(* API.request                                                              *)
(***************************************************************************)
\* what the network can deliver for one request: nothing (fetch rejects), or a
\* response with a 2xx status (ok) or another one, whose body is JSON or is
\* not, and carries success and perhaps a message
Responses ==
    {resp \in [arrived : BOOLEAN, ok : BOOLEAN, json : BOOLEAN, success : BOOLEAN,
               message : {"", "server message"}] :
        /\ ~resp.arrived => ~resp.ok /\ ~resp.json /\ resp.message = ""
        /\ (~resp.json \/ ~resp.ok) => ~resp.success
        /\ resp.success => resp.message = ""}

\* the promise API.request returns, settled: await fetch, await
\* response.json(), and only then the look at response.ok
request(resp) ==
    IF ~resp.arrived
    THEN [state |-> "rejected", success |-> FALSE, message |-> "Failed to fetch"]
    ELSE IF ~resp.json
    THEN [state |-> "rejected", success |-> FALSE, message |-> "SyntaxError"]
    ELSE IF ~resp.ok
    THEN [state |-> "rejected", success |-> FALSE,
          message |-> IF resp.message # "" THEN resp.message ELSE "HTTP error! status"]
    ELSE [state |-> "resolved", success |-> resp.success, message |-> resp.message]

\* the promise API.uploadDocument returns, settled: the 'error' listener, or
\* the 'load' listener with JSON.parse and the look at xhr.status
uploadDocument(resp) ==
    IF ~resp.arrived
    THEN [state |-> "rejected", success |-> FALSE, message |-> "Upload failed"]
    ELSE IF ~resp.json
    THEN [state |-> "rejected", success |-> FALSE, message |-> "SyntaxError"]
    ELSE IF ~resp.ok
    THEN [state |-> "rejected", success |-> FALSE,
          message |-> IF resp.message # "" THEN resp.message ELSE "HTTP error! status"]
    ELSE [state |-> "resolved", success |-> resp.success, message |-> resp.message]

\* what a settled promise is for the caller that awaits it and looks at
\* response.success
StatusOf(r) ==
    IF r.state = "rejected" THEN "reject" ELSE IF r.success THEN "ok" ELSE "fail"

(***************************************************************************)
(* Utils: the validators; strings are sequences of characters               *)
(***************************************************************************)
\* String.prototype.trim
RECURSIVE trim(_)
trim(s) ==
    IF s = <<>> THEN s
    ELSE IF Head(s) = " " THEN trim(Tail(s))
    ELSE IF s[Len(s)] = " " THEN trim(SubSeq(s, 1, Len(s) - 1))
    ELSE s

\* /^[^\s@]+@[^\s@]+\.[^\s@]+$/ .test(email)
validateEmail(email) ==
    \E i, j \in 1..Len(email) :
        /\ 1 < i /\ i + 1 < j /\ j < Len(email)
        /\ email[i] = "@" /\ email[j] = "."
        /\ \A k \in 1..Len(email) : k # i => email[k] \notin {"@", " "}

\* Utils.validatePassword(password).valid
validatePassword(password) == Len(password) >= 6

(***************************************************************************)
(* Alerts (Utils.showAlert): type and the fixed part of the message        *)
(***************************************************************************)
Alert(type, msg) == [type |-> type, msg |-> msg]

\* a lawyer of a server response; connection_status '' stands for null
Lawyer(id, status) == [id |-> id, connection_status |-> status]

\* a user record of a server response; the lawyers are the users 1..MaxLawyers
UserRecord(id, name) ==
    [id |-> id, name |-> name,
     user_type |-> IF id \in 1..MaxLawyers THEN "lawyer" ELSE "user"]

\* null, where a user record is expected
NoUser == UserRecord(0, <<>>)

\* -1: the count was not written yet
NoRegions == [connectionCount |-> -1, recentDocuments |-> "initial"]

\* ProfileManager is constructed on the profile page only, and the forms of
\* Auth are on the login, register and profile pages
NoAccount ==
    /\ srvName = <<"a">>
    /\ srvConnections = <<>>
    /\ user = NoUser
    /\ connectionRequests = [panel |-> "initial", items |-> <<>>]
    /\ profileRegions = NoRegions
    /\ fieldErrors = {}

NoProfileModal ==
    [shown |-> FALSE, lawyer |-> Lawyer(0, ""), connectionStatus |-> "", connect |-> FALSE]

\* LawyerNetwork is constructed on the lawyers page only
NoLawyers ==
    /\ srvUser = 0
    /\ srvConn = <<>>
    /\ currentUser = NoUser
    /\ currentLawyers = <<>>
    /\ currentPage = 1
    /\ totalPages = 1
    /\ isLoading = FALSE
    /\ specializations = <<>>
    /\ specializationFilter = ""
    /\ lawyersGrid = <<>>
    /\ paginationContainer = <<>>
    /\ paginationListeners = 0
    /\ profileModal = NoProfileModal
    /\ connectionModal = [shown |-> FALSE, lawyerId |-> 0]

(***************************************************************************)
(* DocumentManager                                                          *)
(***************************************************************************)
maxFileSize == 50 * 1024 * 1024

allowedTypes == {"application/pdf", "application/msword",
                 "application/vnd.openxmlformats-officedocument.wordprocessingml.document",
                 "text/plain"}

NoFile == [size |-> 0, type |-> ""]

\* the files of an event: at the size limit or over it, of a listed type or not
Files == [size : {maxFileSize, maxFileSize + 1}, type : {"application/pdf", "image/png"}]

\* the documents of the server: a fixed record per id
DocRecord(id) ==
    [id |-> id,
     title |-> IF id % 2 = 1 THEN <<"L", "e">> ELSE <<"e">>,
     summary |-> IF id % 2 = 1 THEN <<>> ELSE <<"l", "E">>,
     analysis_status |-> IF id % 2 = 1 THEN "completed" ELSE "pending"]

DocReq(kind, docId, file) ==
    [kind |-> kind, docId |-> docId, file |-> file, handled |-> FALSE, documents |-> <<>>]

DocState ==
    [currentDocuments |-> currentDocuments,
     uploadInProgress |-> uploadInProgress,
     documentsGrid |-> documentsGrid,
     documentFile |-> documentFile,
     documentSearch |-> documentSearch,
     typeFilter |-> typeFilter,
     alerts |-> <<>>,
     out |-> <<>>]

showAlert(s, type, msg) == [s EXCEPT !.alerts = Append(@, Alert(type, msg))]

\* renderDocuments: the empty-state panel is the rendering of no card
renderDocuments(s, documents) ==
    [s EXCEPT !.documentsGrid = [loading |-> FALSE, cards |-> documents]]

showDocumentsLoading(s, show) ==
    IF show THEN [s EXCEPT !.documentsGrid = [loading |-> TRUE, cards |-> <<>>]] ELSE s

validateFile(file) ==
    IF file.size > maxFileSize THEN FALSE
    ELSE IF file.type \notin allowedTypes THEN FALSE
    ELSE TRUE

\* the alert validateFile shows for a file it rejects
validateFileAlert(file) ==
    IF file.size > maxFileSize THEN Alert("error", "too large")
    ELSE Alert("error", "type not supported")

\* loadDocuments up to its await
loadDocuments(s) ==
    LET s1 == showDocumentsLoading(s, TRUE)
    IN  [s1 EXCEPT !.out = Append(@, DocReq("getDocuments", 0, NoFile))]

\* loadDocuments from its await on; status is ok (2xx, success), fail (2xx,
\* success:false) or reject (the request promise rejected)
loadDocumentsSettled(s, status, documents) ==
    IF status = "ok"
    THEN renderDocuments([s EXCEPT !.currentDocuments = documents], documents)
    ELSE renderDocuments(showAlert(s, "error", "Failed to load documents"), <<>>)

clearUploadForm(s) == [s EXCEPT !.documentFile = NoFile]

\* uploadFile without its uploadInProgress guard
uploadFile_NoGuard(s, file) ==
    [s EXCEPT !.uploadInProgress = TRUE,
              !.out = Append(@, DocReq("upload", 0, file))]

\* uploadFile that never sets uploadInProgress
uploadFile_NoFlag(s, file) ==
    IF s.uploadInProgress
    THEN showAlert(s, "warning", "Another upload is in progress")
    ELSE [s EXCEPT !.out = Append(@, DocReq("upload", 0, file))]

\* uploadFile up to its await
uploadFile(s, file) ==
    IF s.uploadInProgress
    THEN showAlert(s, "warning", "Another upload is in progress")
    ELSE [s EXCEPT !.uploadInProgress = TRUE,
                   !.out = Append(@, DocReq("upload", 0, file))]

\* uploadFile from its await on, resetting the flag at the end of the try block
\* instead of in a finally block
uploadFileSettled_NoFinally(s, status) ==
    IF status = "ok"
    THEN [clearUploadForm(loadDocuments(showAlert(s, "success", "Document uploaded")))
             EXCEPT !.uploadInProgress = FALSE]
    ELSE showAlert(s, "error", "Upload failed")

\* uploadFile from its await on, the finally block included
uploadFileSettled(s, status) ==
    LET s1 == IF status = "ok"
              THEN clearUploadForm(loadDocuments(
                       showAlert(s, "success", "Document uploaded")))
              ELSE showAlert(s, "error", "Upload failed")
    IN  [s1 EXCEPT !.uploadInProgress = FALSE]

RECURSIVE processFiles(_, _)
processFiles(s, files) ==
    IF files = <<>> THEN s
    ELSE LET file == Head(files)
             s1 == IF validateFile(file) THEN uploadFile(s, file)
                   ELSE [s EXCEPT !.alerts = Append(@, validateFileAlert(file))]
         IN  processFiles(s1, Tail(files))

handleFileSelect(s, files) ==
    IF Len(files) > 0 THEN processFiles(s, files) ELSE s

handleDrop(s, files) ==
    IF Len(files) > 0 THEN processFiles(s, files) ELSE s

handleUpload(s) ==
    IF s.documentFile = NoFile
    THEN showAlert(s, "warning", "Please select a file")
    ELSE uploadFile(s, s.documentFile)

analyzeDocument(s, docId) ==
    [s EXCEPT !.out = Append(@, DocReq("analyze", docId, NoFile))]

analyzeDocumentSettled(s, status) ==
    IF status = "ok"
    THEN loadDocuments(showAlert(s, "success", "Document analysis started"))
    ELSE showAlert(s, "error", "Analysis failed")

deleteDocument(s, docId, confirmed) ==
    IF ~confirmed THEN s
    ELSE [s EXCEPT !.out = Append(@, DocReq("delete", docId, NoFile))]

deleteDocumentSettled(s, status) ==
    IF status = "ok"
    THEN loadDocuments(showAlert(s, "success", "Document deleted"))
    ELSE showAlert(s, "error", "Delete failed")

\* filterDocuments(searchTerm = '')
filterDocuments(s, searchTerm) ==
    LET searchInput == IF s.documentSearch # <<>> THEN s.documentSearch ELSE searchTerm
        bySearch(doc) ==
            \/ includes(toLowerCase(doc.title), toLowerCase(searchInput))
            \/ /\ doc.summary # <<>>
               /\ includes(toLowerCase(doc.summary), toLowerCase(searchInput))
        byType(doc) == doc.analysis_status = s.typeFilter
        filtered1 == IF searchInput # <<>>
                     THEN SelectSeq(s.currentDocuments, bySearch)
                     ELSE s.currentDocuments
        filtered2 == IF s.typeFilter # ""
                     THEN SelectSeq(filtered1, byType)
                     ELSE filtered1
    IN  renderDocuments(s, filtered2)

(***************************************************************************)
(* Documents page: construction, user events, server, settled requests      *)
(***************************************************************************)
SetDoc(s, rest) ==
    /\ currentDocuments' = s.currentDocuments
    /\ uploadInProgress' = s.uploadInProgress
    /\ documentsGrid' = s.documentsGrid
    /\ documentFile' = s.documentFile
    /\ documentSearch' = s.documentSearch
    /\ typeFilter' = s.typeFilter
    /\ alerts' = s.alerts
    /\ net' = rest \o s.out

\* the managers of the other pages are not constructed on the documents page
NoChat ==
    /\ srvSessions = {}
    /\ srvNextId = 1
    /\ currentSessionId = 0
    /\ sessions = <<>>
    /\ isTyping = FALSE
    /\ chatSessions = [panel |-> "initial", items |-> <<>>, active |-> 0]
    /\ chatMessages = [base |-> 0, added |-> <<>>]
    /\ messageInput = ""
    /\ timers = 0

\* new DocumentManager(): constructor and init(), up to the await of loadDocuments
InitDocs ==
    /\ page = "documents"
    /\ NoChat
    /\ NoLawyers
    /\ NoAccount
    /\ srvDocs \in SUBSET (1..MaxDocs)
    /\ currentDocuments = <<>>
    /\ uploadInProgress = FALSE
    /\ documentsGrid = [loading |-> TRUE, cards |-> <<>>]
    /\ documentFile = NoFile
    /\ documentSearch = <<>>
    /\ typeFilter = ""
    /\ alerts = <<>>
    /\ net = <<DocReq("getDocuments", 0, NoFile)>>

SearchTerms == {<<>>, <<"l", "e">>}
StatusFilters == {"", "completed"}

\* 'change' on #documentFile
FileSelect ==
    /\ page = "documents"
    /\ Len(net) < MaxInFlight
    /\ \E files \in SeqsUpTo(Files, MaxFiles) :
         LET chosen == IF files = <<>> THEN NoFile ELSE files[1]
         IN  SetDoc(handleFileSelect([DocState EXCEPT !.documentFile = chosen], files), net)
    /\ UNCHANGED <<page, accVars, lawVars, srvDocs, chatVars>>

\* 'drop' on #uploadDropZone
FileDrop ==
    /\ page = "documents"
    /\ Len(net) < MaxInFlight
    /\ \E files \in SeqsUpTo(Files, MaxFiles) : SetDoc(handleDrop(DocState, files), net)
    /\ UNCHANGED <<page, accVars, lawVars, srvDocs, chatVars>>

\* 'submit' on #uploadForm
SubmitUpload ==
    /\ page = "documents"
    /\ Len(net) < MaxInFlight
    /\ SetDoc(handleUpload(DocState), net)
    /\ UNCHANGED <<page, accVars, lawVars, srvDocs, chatVars>>

\* click on a .btn-analyze of a rendered card
ClickAnalyze ==
    /\ page = "documents"
    /\ Len(net) < MaxInFlight
    /\ \E doc \in Range(documentsGrid.cards) : SetDoc(analyzeDocument(DocState, doc.id), net)
    /\ UNCHANGED <<page, accVars, lawVars, srvDocs, chatVars>>

\* click on a .btn-delete-doc of a rendered card, and the answer to confirm()
ClickDelete ==
    /\ page = "documents"
    /\ Len(net) < MaxInFlight
    /\ \E doc \in Range(documentsGrid.cards), confirmed \in BOOLEAN :
         SetDoc(deleteDocument(DocState, doc.id, confirmed), net)
    /\ UNCHANGED <<page, accVars, lawVars, srvDocs, chatVars>>

\* 'input' on #documentSearch: the listener passes the box's value
SearchInputFrom(terms) ==
    /\ page = "documents"
    /\ \E v \in terms :
         SetDoc(filterDocuments([DocState EXCEPT !.documentSearch = v], v), net)
    /\ UNCHANGED <<page, accVars, lawVars, srvDocs, chatVars>>

\* 'change' on #typeFilter: the listener passes no argument
TypeFilterChange ==
    /\ page = "documents"
    /\ \E f \in StatusFilters :
         SetDoc(filterDocuments([DocState EXCEPT !.typeFilter = f], <<>>), net)
    /\ UNCHANGED <<page, accVars, lawVars, srvDocs, chatVars>>

\* GET /documents handled by the server: it reads the list it holds
ServeDocuments ==
    /\ page = "documents"
    /\ \E i \in 1..Len(net) :
         /\ net[i].kind = "getDocuments"
         /\ ~net[i].handled
         /\ net' = [net EXCEPT ![i].handled = TRUE,
                               ![i].documents = [k \in 1..Cardinality(srvDocs) |->
                                                   DocRecord(SortedSeq(srvDocs)[k])]]
    /\ UNCHANGED <<page, accVars, lawVars, alerts, docVars, chatVars>>

Statuses == {"ok", "fail", "reject"}

SettleGetDocuments ==
    /\ page = "documents"
    /\ \E i \in 1..Len(net), status \in Statuses :
         /\ net[i].kind = "getDocuments"
         /\ status = "ok" => net[i].handled
         /\ SetDoc(loadDocumentsSettled(DocState, status, net[i].documents), RemoveAt(net, i))
    /\ UNCHANGED <<page, accVars, lawVars, srvDocs, chatVars>>

SettleUpload ==
    /\ page = "documents"
    /\ \E i \in 1..Len(net), resp \in Responses :
         LET status == StatusOf(uploadDocument(resp)) IN
         /\ net[i].kind = "upload"
         /\ IF status = "ok"
            THEN /\ Cardinality(srvDocs) < MaxDocs
                 /\ srvDocs' = srvDocs \cup
                        {CHOOSE id \in 1..MaxDocs : id \notin srvDocs /\
                            \A other \in (1..MaxDocs) \ srvDocs : id <= other}
            ELSE srvDocs' = srvDocs
         /\ SetDoc(uploadFileSettled(DocState, status), RemoveAt(net, i))
    /\ UNCHANGED <<page, accVars, lawVars, chatVars>>

SettleAnalyze ==
    /\ page = "documents"
    /\ \E i \in 1..Len(net), status \in Statuses :
         /\ net[i].kind = "analyze"
         /\ status = "ok" => net[i].docId \in srvDocs
         /\ SetDoc(analyzeDocumentSettled(DocState, status), RemoveAt(net, i))
    /\ UNCHANGED <<page, accVars, lawVars, srvDocs, chatVars>>

SettleDelete ==
    /\ page = "documents"
    /\ \E i \in 1..Len(net), status \in Statuses :
         /\ net[i].kind = "delete"
         /\ status = "ok" => net[i].docId \in srvDocs
         /\ srvDocs' = IF status = "ok" THEN srvDocs \ {net[i].docId} ELSE srvDocs
         /\ SetDoc(deleteDocumentSettled(DocState, status), RemoveAt(net, i))
    /\ UNCHANGED <<page, accVars, lawVars, chatVars>>

NextDocs ==
    \/ FileSelect
    \/ FileDrop
    \/ SubmitUpload
    \/ ClickAnalyze
    \/ ClickDelete
    \/ SearchInputFrom(SearchTerms)
    \/ TypeFilterChange
    \/ ServeDocuments
    \/ SettleGetDocuments
    \/ SettleUpload
    \/ SettleAnalyze
    \/ SettleDelete

SpecDocs == InitDocs /\ [][NextDocs]_vars

(***************************************************************************)
(* filterDocuments over arbitrary documents: the page after a list of       *)
(* documents was loaded, and the two controls that call filterDocuments     *)
(***************************************************************************)
Strings == SeqsUpTo(Alphabet, MaxLen)

GenDocs == [id : {MaxDocs + 2}, title : Strings \ {<<>>}, summary : Strings,
            analysis_status : {"pending"}]

\* a loaded list: none, or an arbitrary document after a fixed one
GenLists == {<<>>} \cup {<<DocRecord(1), d>> : d \in GenDocs}

InitFilter ==
    /\ page = "documents"
    /\ NoChat
    /\ NoLawyers
    /\ NoAccount
    /\ srvDocs = {}
    /\ currentDocuments \in GenLists
    /\ uploadInProgress = FALSE
    /\ documentsGrid = [loading |-> FALSE, cards |-> currentDocuments]
    /\ documentFile = NoFile
    /\ documentSearch = <<>>
    /\ typeFilter = ""
    /\ alerts = <<>>
    /\ net = <<>>

NextFilter ==
    \/ SearchInputFrom(Strings)
    \/ TypeFilterChange

SpecFilter == InitFilter /\ [][NextFilter]_vars

(***************************************************************************)
(* ChatBot                                                                  *)
(***************************************************************************)
ChatReq(kind, sessionId, cont) ==
    [kind |-> kind, sessionId |-> sessionId, cont |-> cont]

ChatState ==
    [currentSessionId |-> currentSessionId,
     sessions |-> sessions,
     isTyping |-> isTyping,
     chatSessions |-> chatSessions,
     chatMessages |-> chatMessages,
     messageInput |-> messageInput,
     timers |-> timers,
     alerts |-> <<>>,
     out |-> <<>>]

FailedPanel == [panel |-> "failed", items |-> <<>>, active |-> 0]

WelcomeMessages == [base |-> 0, added |-> <<>>]

\* a message of #chatMessages; session is the session it was posted to
Message(type, content, sessionId) ==
    [message_type |-> type, content |-> content, session |-> sessionId]

renderSessions(s) ==
    IF Len(s.sessions) = 0
    THEN [s EXCEPT !.chatSessions = [panel |-> "empty", items |-> <<>>, active |-> 0]]
    ELSE [s EXCEPT !.chatSessions =
              [panel |-> "list", items |-> s.sessions,
               active |-> IF s.currentSessionId \in Range(s.sessions)
                          THEN s.currentSessionId ELSE 0]]

\* loadSessions up to its await; cont tells what awaits it (init, or nothing)
loadSessions(s, cont) ==
    [s EXCEPT !.out = Append(@, ChatReq("getSessions", 0, cont))]

loadQuickCategories(s) ==
    [s EXCEPT !.out = Append(@, ChatReq("getCategories", 0, "init"))]

\* loadSessions from its await on; init() then awaits loadQuickCategories
loadSessionsSettled(s, status, list, cont) ==
    LET s1 == IF status = "ok" THEN renderSessions([s EXCEPT !.sessions = list])
              ELSE IF status = "reject" THEN [s EXCEPT !.chatSessions = FailedPanel]
              ELSE s
    IN  IF cont = "init" THEN loadQuickCategories(s1) ELSE s1

\* loadSession up to its await
loadSession(s, sessionId) ==
    LET s1 == renderSessions([s EXCEPT !.currentSessionId = sessionId])
    IN  [s1 EXCEPT !.out = Append(@, ChatReq("getMessages", sessionId, "none"))]

\* loadSession from its await on: renderMessages, title, chat actions
loadSessionSettled(s, status, sessionId) ==
    IF status = "ok"
    THEN [s EXCEPT !.chatMessages = [base |-> sessionId, added |-> <<>>]]
    ELSE IF status = "reject" THEN showAlert(s, "danger", "Failed to load chat session")
    ELSE s

addMessageToUI(s, message) ==
    [s EXCEPT !.chatMessages.added = Append(@, message)]

showTypingIndicator(s) == [s EXCEPT !.isTyping = TRUE]

hideTypingIndicator(s) == [s EXCEPT !.isTyping = FALSE]

\* createNewSession up to its await; cont tells what awaits it: sendMessage
\* (send), the then() of startCategoryChat (category), or nothing (none)
createNewSession(s, cont) ==
    [s EXCEPT !.out = Append(@, ChatReq("createSession", 0, cont))]

\* sendMessage from "Clear input" to the await of the chat request
sendMessagePost(s, message) ==
    LET s1 == [s EXCEPT !.messageInput = ""]
        s2 == addMessageToUI(s1, Message("user", message, s.currentSessionId))
        s3 == showTypingIndicator(s2)
    IN  [s3 EXCEPT !.out = Append(@, ChatReq("chat", s.currentSessionId, "none"))]

\* sendMessage resumed after await createNewSession()
sendMessageResumed(s, message) ==
    IF s.currentSessionId = 0 THEN s ELSE sendMessagePost(s, message)

\* sendMessage up to its first await
sendMessage(s) ==
    LET message == s.messageInput
    IN  IF message = "" \/ s.isTyping THEN s
        ELSE IF s.currentSessionId = 0 THEN createNewSession(s, "send")
        ELSE sendMessagePost(s, message)

\* createNewSession from its await on, followed by what awaited it
createNewSessionSettled(s, status, sessionId, cont) ==
    LET s1 == IF status = "ok"
              THEN showAlert(
                       loadSession(renderSessions(
                           [s EXCEPT !.sessions = <<sessionId>> \o @]), sessionId),
                       "success", "New chat session created")
              ELSE IF status = "reject"
              THEN showAlert(s, "danger", "Failed to create new session")
              ELSE s
    IN  IF cont = "send" THEN sendMessageResumed(s1, "text")
        ELSE IF cont = "category" THEN [s1 EXCEPT !.timers = @ + 1]
        ELSE s1

\* sendMessage from the await of the chat request on, with a catch block that
\* does not hide the typing indicator
sendMessageSettled_CatchKeepsTyping(s, status, sessionId) ==
    IF status = "ok"
    THEN loadSessions(addMessageToUI(hideTypingIndicator(s),
                                     Message("assistant", "ai_response", sessionId)), "none")
    ELSE IF status = "fail"
    THEN addMessageToUI(hideTypingIndicator(s),
                        Message("assistant", "error processing", sessionId))
    ELSE addMessageToUI(s, Message("assistant", "trouble connecting", sessionId))

\* sendMessage from the await of the chat request on
sendMessageSettled(s, status, sessionId) ==
    LET s1 == hideTypingIndicator(s)
    IN  IF status = "ok"
        THEN loadSessions(addMessageToUI(s1, Message("assistant", "ai_response", sessionId)),
                          "none")
        ELSE IF status = "fail"
        THEN addMessageToUI(s1, Message("assistant", "error processing", sessionId))
        ELSE addMessageToUI(s1, Message("assistant", "trouble connecting", sessionId))

deleteSession(s, sessionId, confirmed) ==
    IF ~confirmed THEN s
    ELSE [s EXCEPT !.out = Append(@, ChatReq("deleteSession", sessionId, "none"))]

\* deleteSession from its await on: success of the response is not looked at
deleteSessionSettled(s, status, sessionId) ==
    IF status = "reject" THEN showAlert(s, "danger", "Failed to delete session")
    ELSE LET s1 == renderSessions(
                       [s EXCEPT !.sessions = SelectSeq(@, LAMBDA id : id # sessionId)])
             s2 == IF s1.currentSessionId = sessionId
                   THEN [s1 EXCEPT !.currentSessionId = 0,
                                   !.chatMessages = WelcomeMessages]
                   ELSE s1
         IN  showAlert(s2, "success", "Chat session deleted")

startCategoryChat(s) ==
    createNewSession([s EXCEPT !.messageInput = "text"], "category")

clearChat(s, confirmed, confirmedDelete) ==
    IF ~confirmed THEN s ELSE deleteSession(s, s.currentSessionId, confirmedDelete)

\* loadQuickCategories from its await on (it writes #quickCategories only, which
\* nothing reads), then the rest of init(): checkCategoryParam starts a category
\* chat when the URL names a category
loadQuickCategoriesSettled(s, status, urlCategory) ==
    IF urlCategory THEN startCategoryChat(s) ELSE s

(***************************************************************************)
(* Chat page                                                                *)
(***************************************************************************)
SetChat(s, rest) ==
    /\ currentSessionId' = s.currentSessionId
    /\ sessions' = s.sessions
    /\ isTyping' = s.isTyping
    /\ chatSessions' = s.chatSessions
    /\ chatMessages' = s.chatMessages
    /\ messageInput' = s.messageInput
    /\ timers' = s.timers
    /\ alerts' = s.alerts
    /\ net' = rest \o s.out

NoDocs ==
    /\ srvDocs = {}
    /\ currentDocuments = <<>>
    /\ uploadInProgress = FALSE
    /\ documentsGrid = [loading |-> FALSE, cards |-> <<>>]
    /\ documentFile = NoFile
    /\ documentSearch = <<>>
    /\ typeFilter = ""

\* new ChatBot(): constructor and init(), up to the await of loadSessions
InitChat ==
    /\ page = "chat"
    /\ NoDocs
    /\ NoLawyers
    /\ NoAccount
    /\ \E n \in 0..(MaxSessions - 1) : srvSessions = 1..n /\ srvNextId = n + 1
    /\ currentSessionId = 0
    /\ sessions = <<>>
    /\ isTyping = FALSE
    /\ chatSessions = [panel |-> "initial", items |-> <<>>, active |-> 0]
    /\ chatMessages = WelcomeMessages
    /\ messageInput = ""
    /\ timers = 0
    /\ alerts = <<>>
    /\ net = <<ChatReq("getSessions", 0, "init")>>

\* messages a send still has to add: its user message and the reply
PendingMessages ==
    2 * (Cardinality({i \in 1..Len(net) : net[i].kind = "createSession"}) + timers)
      + Cardinality({i \in 1..Len(net) : net[i].kind = "chat"})

CanStartSend ==
    /\ Len(net) < MaxInFlight
    /\ Len(chatMessages.added) + PendingMessages + 2 <= MaxMessages

\* the user types into #messageInput
TypeMessage ==
    /\ page = "chat"
    /\ messageInput = ""
    /\ messageInput' = "text"
    /\ alerts' = <<>>
    /\ UNCHANGED <<page, accVars, lawVars, net, docVars, srvSessions, srvNextId, currentSessionId, sessions,
                   isTyping, chatSessions, chatMessages, timers>>

\* init() has run to its end: its two awaits are over, the listeners are set up
InitDone == \A i \in 1..Len(net) : net[i].cont # "init"

\* submit of #chatForm or Enter in #messageInput, listened to once init() is through
SendMessage ==
    /\ page = "chat"
    /\ InitDone
    /\ CanStartSend
    /\ SetChat(sendMessage(ChatState), net)
    /\ UNCHANGED <<page, accVars, lawVars, docVars, srvSessions, srvNextId>>

\* window.sendExampleQuestion: an example question button of the template
SendExampleQuestion ==
    /\ page = "chat"
    /\ CanStartSend
    /\ SetChat(sendMessage([ChatState EXCEPT !.messageInput = "text"]), net)
    /\ UNCHANGED <<page, accVars, lawVars, docVars, srvSessions, srvNextId>>

\* the New Chat and Start First Chat buttons
ClickNewSession ==
    /\ page = "chat"
    /\ CanStartSend
    /\ SetChat(createNewSession(ChatState, "none"), net)
    /\ UNCHANGED <<page, accVars, lawVars, docVars, srvSessions, srvNextId>>

\* click on a session of the side panel
ClickSession ==
    /\ page = "chat"
    /\ Len(net) < MaxInFlight
    /\ \E id \in Range(chatSessions.items) : SetChat(loadSession(ChatState, id), net)
    /\ UNCHANGED <<page, accVars, lawVars, docVars, srvSessions, srvNextId>>

\* click on the trash button of a session of the side panel
ClickDeleteSession ==
    /\ page = "chat"
    /\ Len(net) < MaxInFlight
    /\ \E id \in Range(chatSessions.items), confirmed \in BOOLEAN :
         SetChat(deleteSession(ChatState, id, confirmed), net)
    /\ UNCHANGED <<page, accVars, lawVars, docVars, srvSessions, srvNextId>>

\* the Clear Chat button, displayed once a session's messages were rendered
ClickClearChat ==
    /\ page = "chat"
    /\ Len(net) < MaxInFlight
    /\ chatMessages.base # 0
    /\ \E confirmed \in BOOLEAN, confirmedDelete \in BOOLEAN :
         SetChat(clearChat(ChatState, confirmed, confirmedDelete), net)
    /\ UNCHANGED <<page, accVars, lawVars, docVars, srvSessions, srvNextId>>

\* click on a quick category button, rendered when loadQuickCategories settled
ClickCategory ==
    /\ page = "chat"
    /\ CanStartSend
    /\ InitDone
    /\ SetChat(startCategoryChat(ChatState), net)
    /\ UNCHANGED <<page, accVars, lawVars, docVars, srvSessions, srvNextId>>

\* the 500 ms timer of startCategoryChat fires
TimerFires ==
    /\ page = "chat"
    /\ timers > 0
    /\ SetChat(sendMessage([ChatState EXCEPT !.timers = @ - 1]), net)
    /\ UNCHANGED <<page, accVars, lawVars, docVars, srvSessions, srvNextId>>

\* the list GET /chatbot/sessions answers: newest session first
ServerSessionList ==
    [k \in 1..Cardinality(srvSessions) |->
        SortedSeq(srvSessions)[Cardinality(srvSessions) + 1 - k]]

SettleGetSessions ==
    /\ page = "chat"
    /\ \E i \in 1..Len(net), status \in Statuses :
         /\ net[i].kind = "getSessions"
         /\ SetChat(loadSessionsSettled(ChatState, status, ServerSessionList, net[i].cont),
                    RemoveAt(net, i))
    /\ UNCHANGED <<page, accVars, lawVars, docVars, srvSessions, srvNextId>>

SettleGetCategories ==
    /\ page = "chat"
    /\ \E i \in 1..Len(net), status \in Statuses, urlCategory \in BOOLEAN :
         /\ net[i].kind = "getCategories"
         /\ SetChat(loadQuickCategoriesSettled(ChatState, status, urlCategory),
                    RemoveAt(net, i))
    /\ UNCHANGED <<page, accVars, lawVars, docVars, srvSessions, srvNextId>>

SettleCreateSession ==
    /\ page = "chat"
    /\ \E i \in 1..Len(net), status \in Statuses :
         /\ net[i].kind = "createSession"
         /\ status = "ok" => srvNextId <= MaxSessions
         /\ srvSessions' = IF status = "ok" THEN srvSessions \cup {srvNextId} ELSE srvSessions
         /\ srvNextId' = IF status = "ok" THEN srvNextId + 1 ELSE srvNextId
         /\ SetChat(createNewSessionSettled(ChatState, status, srvNextId, net[i].cont),
                    RemoveAt(net, i))
    /\ UNCHANGED <<page, accVars, lawVars, docVars>>

SettleGetMessages ==
    /\ page = "chat"
    /\ \E i \in 1..Len(net), status \in Statuses :
         /\ net[i].kind = "getMessages"
         /\ status = "ok" => net[i].sessionId \in srvSessions
         /\ SetChat(loadSessionSettled(ChatState, status, net[i].sessionId), RemoveAt(net, i))
    /\ UNCHANGED <<page, accVars, lawVars, docVars, srvSessions, srvNextId>>

SettleChat ==
    /\ page = "chat"
    /\ \E i \in 1..Len(net), status \in Statuses :
         /\ net[i].kind = "chat"
         /\ status = "ok" => net[i].sessionId \in srvSessions
         /\ SetChat(sendMessageSettled(ChatState, status, net[i].sessionId), RemoveAt(net, i))
    /\ UNCHANGED <<page, accVars, lawVars, docVars, srvSessions, srvNextId>>

SettleDeleteSession ==
    /\ page = "chat"
    /\ \E i \in 1..Len(net), status \in Statuses :
         /\ net[i].kind = "deleteSession"
         /\ status = "ok" => net[i].sessionId \in srvSessions
         /\ srvSessions' = IF status = "ok" THEN srvSessions \ {net[i].sessionId}
                           ELSE srvSessions
         /\ SetChat(deleteSessionSettled(ChatState, status, net[i].sessionId),
                    RemoveAt(net, i))
    /\ UNCHANGED <<page, accVars, lawVars, docVars, srvNextId>>

NextChat ==
    \/ TypeMessage
    \/ SendMessage
    \/ SendExampleQuestion
    \/ ClickNewSession
    \/ ClickSession
    \/ ClickDeleteSession
    \/ ClickClearChat
    \/ ClickCategory
    \/ TimerFires
    \/ SettleGetSessions
    \/ SettleGetCategories
    \/ SettleCreateSession
    \/ SettleGetMessages
    \/ SettleChat
    \/ SettleDeleteSession

SpecChat == InitChat /\ [][NextChat]_vars

(***************************************************************************)
(* Session.checkAuth and LawyerNetwork                                      *)
(***************************************************************************)
per_page == 12

NoParams == [page |-> 0, specialization |-> "", per_page |-> 0]

LawReq(kind, lawyerId, params) == [kind |-> kind, lawyerId |-> lawyerId, params |-> params]

LawState ==
    [currentUser |-> currentUser,
     currentLawyers |-> currentLawyers,
     currentPage |-> currentPage,
     totalPages |-> totalPages,
     isLoading |-> isLoading,
     specializations |-> specializations,
     specializationFilter |-> specializationFilter,
     lawyersGrid |-> lawyersGrid,
     paginationContainer |-> paginationContainer,
     paginationListeners |-> paginationListeners,
     profileModal |-> profileModal,
     connectionModal |-> connectionModal,
     alerts |-> <<>>,
     out |-> <<>>]

\* the value of a JavaScript && chain, as the string JavaScript prints for it
Truthy(v) == v = "true"

\* canConnect without the comparison of the two ids
canConnect_IgnoresSelf(s, lawyer) ==
    IF lawyer.connection_status # "" THEN "false"
    ELSE IF s.currentUser = NoUser THEN "null"
    ELSE "true"

\* canConnect without the look at connection_status
canConnect_IgnoresStatus(s, lawyer) ==
    IF s.currentUser = NoUser THEN "null"
    ELSE IF s.currentUser.id # lawyer.id THEN "true" ELSE "false"

\* !lawyer.connection_status && window.currentUser && window.currentUser.id !== lawyer.id
canConnect(s, lawyer) ==
    IF lawyer.connection_status # "" THEN "false"
    ELSE IF s.currentUser = NoUser THEN "null"
    ELSE IF s.currentUser.id # lawyer.id THEN "true" ELSE "false"

\* the card of a lawyer: the View button always, the Connect button if canConnect
createLawyerCard(s, lawyer) == [lawyer |-> lawyer, connect |-> Truthy(canConnect(s, lawyer))]

\* renderLawyers: the No Lawyers Found panel is the rendering of no card
renderLawyers(s, lawyers) ==
    [s EXCEPT !.lawyersGrid = [k \in 1..Len(lawyers) |-> createLawyerCard(s, lawyers[k])]]

\* LawyerNetwork.showLoading
showLoading(s, show) == IF show THEN [s EXCEPT !.lawyersGrid = <<>>] ELSE s

\* of the five filter inputs buildSearchParams reads, the specialization is kept
buildSearchParams(s) ==
    [page |-> 0, specialization |-> s.specializationFilter, per_page |-> per_page]

\* loadLawyers(page) without its isLoading guard
loadLawyers_NoGuard(s, p) ==
    LET s1 == showLoading([s EXCEPT !.isLoading = TRUE], TRUE)
        params == [buildSearchParams(s1) EXCEPT !.page = p]
    IN  [s1 EXCEPT !.out = Append(@, LawReq("search", 0, params))]

\* loadLawyers(page) up to its await
loadLawyers(s, p) ==
    IF s.isLoading THEN s
    ELSE LET s1 == showLoading([s EXCEPT !.isLoading = TRUE], TRUE)
             params == [buildSearchParams(s1) EXCEPT !.page = p]
         IN  [s1 EXCEPT !.out = Append(@, LawReq("search", 0, params))]

PageItem(label, p, cls) == [label |-> label, page |-> p, cls |-> cls]

Max(a, b) == IF a >= b THEN a ELSE b
Min(a, b) == IF a <= b THEN a ELSE b

\* renderPagination that marks the item after the current page
renderPagination_ActiveOffByOne(s) ==
    IF s.totalPages <= 1 THEN [s EXCEPT !.paginationContainer = <<>>]
    ELSE LET startPage == Max(1, s.currentPage - 2)
             endPage == Min(s.totalPages, s.currentPage + 2)
             previous == <<PageItem("previous", s.currentPage - 1,
                                    IF s.currentPage <= 1 THEN "disabled" ELSE "")>>
             first == IF startPage > 1 THEN <<PageItem("number", 1, "")>> ELSE <<>>
             numbers == [k \in 1..(endPage - startPage + 1) |->
                            PageItem("number", startPage + k - 1,
                                     IF startPage + k - 1 = s.currentPage + 1
                                     THEN "active" ELSE "")]
             last == IF endPage < s.totalPages
                     THEN <<PageItem("number", s.totalPages, "")>> ELSE <<>>
             next == <<PageItem("next", s.currentPage + 1,
                                IF s.currentPage >= s.totalPages THEN "disabled" ELSE "")>>
         IN  [s EXCEPT !.paginationContainer = previous \o first \o numbers \o last \o next,
                       !.paginationListeners = Min(@ + 1, MaxListeners)]

\* renderPagination: the <li> items with a data-page link, in document order
\* (the "..." items carry no link)
renderPagination(s) ==
    IF s.totalPages <= 1 THEN [s EXCEPT !.paginationContainer = <<>>]
    ELSE LET startPage == Max(1, s.currentPage - 2)
             endPage == Min(s.totalPages, s.currentPage + 2)
             previous == <<PageItem("previous", s.currentPage - 1,
                                    IF s.currentPage <= 1 THEN "disabled" ELSE "")>>
             first == IF startPage > 1 THEN <<PageItem("number", 1, "")>> ELSE <<>>
             numbers == [k \in 1..(endPage - startPage + 1) |->
                            PageItem("number", startPage + k - 1,
                                     IF startPage + k - 1 = s.currentPage
                                     THEN "active" ELSE "")]
             last == IF endPage < s.totalPages
                     THEN <<PageItem("number", s.totalPages, "")>> ELSE <<>>
             next == <<PageItem("next", s.currentPage + 1,
                                IF s.currentPage >= s.totalPages THEN "disabled" ELSE "")>>
         IN  [s EXCEPT !.paginationContainer = previous \o first \o numbers \o last \o next,
                       !.paginationListeners = Min(@ + 1, MaxListeners)]

\* one 'click' listener of #paginationContainer, for a click on the link of item
paginationListener(s, item) ==
    IF item.cls # "disabled" /\ item.page >= 1 /\ item.page <= s.totalPages
    THEN loadLawyers(s, item.page)
    ELSE s

\* a click on the link of item: every listener renderPagination has added runs,
\* one after the other (those beyond MaxListeners are not counted: they find
\* what the second one finds)
RECURSIVE runListeners(_, _, _)
runListeners(s, n, item) ==
    IF n = 0 THEN s ELSE runListeners(paginationListener(s, item), n - 1, item)

paginationClick(s, item) == runListeners(s, s.paginationListeners, item)

\* loadLawyers from its await on, the finally block included; updateResultsCount
\* writes #resultsCount, which nothing reads
loadLawyersSettled(s, status, response) ==
    LET s1 == IF status = "ok"
              THEN LET s2 == [s EXCEPT !.currentLawyers = response.lawyers,
                                       !.currentPage = response.pagination.page,
                                       !.totalPages = response.pagination.pages]
                   IN  renderPagination(renderLawyers(s2, s2.currentLawyers))
              ELSE renderLawyers(showAlert(s, "error", "Failed to load lawyers"), <<>>)
    IN  showLoading([s1 EXCEPT !.isLoading = FALSE], FALSE)

performSearch(s) == loadLawyers([s EXCEPT !.currentPage = 1], 1)

\* Session.checkAuth from its await on
checkAuthSettled(s, status, response_user) ==
    IF status = "ok" /\ response_user # NoUser THEN [s EXCEPT !.currentUser = response_user]
    ELSE [s EXCEPT !.currentUser = NoUser]

\* loadSpecializations from its await on
loadSpecializationsSettled(s, status, list) ==
    IF status = "ok" THEN [s EXCEPT !.specializations = list] ELSE s

viewLawyerProfile(s, lawyerId) ==
    [s EXCEPT !.out = Append(@, LawReq("profile", lawyerId, NoParams))]

showLawyerProfileModal(s, lawyer, connectionStatus) ==
    [s EXCEPT !.profileModal =
         [shown |-> TRUE, lawyer |-> lawyer, connectionStatus |-> connectionStatus,
          connect |-> Truthy(canConnect(s, lawyer)) /\ connectionStatus = ""]]

\* viewLawyerProfile from its await on
viewLawyerProfileSettled(s, status, response) ==
    IF status = "ok"
    THEN showLawyerProfileModal(s, response.lawyer, response.connection_status)
    ELSE showAlert(s, "error", "Failed to load profile")

showConnectionModal(s, lawyerId) ==
    [s EXCEPT !.connectionModal = [shown |-> TRUE, lawyerId |-> lawyerId]]

\* handleConnectionRequest up to its await
handleConnectionRequest(s, case_description) ==
    IF trim(case_description) = <<>>
    THEN showAlert(s, "warning", "Please provide a case description")
    ELSE [s EXCEPT !.out = Append(@, LawReq("connect", s.connectionModal.lawyerId, NoParams))]

\* handleConnectionRequest from its await on
handleConnectionRequestSettled(s, status) ==
    IF status = "ok"
    THEN LET s1 == showAlert(s, "success", "Connection request sent")
             s2 == [s1 EXCEPT !.connectionModal.shown = FALSE]
         IN  loadLawyers(s2, s2.currentPage)
    ELSE showAlert(s, "error", "Failed to send request")

(***************************************************************************)
(* Lawyers page                                                             *)
(***************************************************************************)
SetLaw(s, rest) ==
    /\ currentUser' = s.currentUser
    /\ currentLawyers' = s.currentLawyers
    /\ currentPage' = s.currentPage
    /\ totalPages' = s.totalPages
    /\ isLoading' = s.isLoading
    /\ specializations' = s.specializations
    /\ specializationFilter' = s.specializationFilter
    /\ lawyersGrid' = s.lawyersGrid
    /\ paginationContainer' = s.paginationContainer
    /\ paginationListeners' = s.paginationListeners
    /\ profileModal' = s.profileModal
    /\ connectionModal' = s.connectionModal
    /\ alerts' = s.alerts
    /\ net' = rest \o s.out

\* the users that can be logged in: nobody, lawyer 1, or a client
Users == {0, 1, MaxLawyers + 1}

\* the user of a server response
SrvUserRecord == IF srvUser = 0 THEN NoUser ELSE UserRecord(srvUser, srvName)

\* DOMContentLoaded: Session.checkAuth(), then new LawyerNetwork(): constructor
\* and init(), up to the awaits of loadSpecializations and loadLawyers
InitLawyers ==
    /\ page = "lawyers"
    /\ NoDocs
    /\ NoChat
    /\ NoAccount
    /\ srvUser \in Users
    /\ srvConn \in [1..MaxLawyers -> {"", "accepted"}]
    /\ \A id \in 1..MaxLawyers : (srvUser = 0 \/ srvUser = id) => srvConn[id] = ""
    /\ currentUser = NoUser
    /\ currentLawyers = <<>>
    /\ currentPage = 1
    /\ totalPages = 1
    /\ isLoading = TRUE
    /\ specializations = <<>>
    /\ specializationFilter = ""
    /\ lawyersGrid = <<>>
    /\ paginationContainer = <<>>
    /\ paginationListeners = 0
    /\ profileModal = NoProfileModal
    /\ connectionModal = [shown |-> FALSE, lawyerId |-> 0]
    /\ alerts = <<>>
    /\ net = <<LawReq("verify", 0, NoParams),
               LawReq("getSpecializations", 0, NoParams),
               LawReq("search", 0, [page |-> 1, specialization |-> "",
                                    per_page |-> per_page])>>

\* 'change' on #specializationFilter
ChangeFilter ==
    /\ page = "lawyers"
    /\ Len(net) < MaxInFlight
    /\ \E v \in ({""} \cup Range(specializations)) \ {specializationFilter} :
         SetLaw(performSearch([LawState EXCEPT !.specializationFilter = v]), net)
    /\ UNCHANGED <<page, accVars, docVars, chatVars, srvUser, srvConn>>

\* 'submit' on #lawyerSearchForm, and the timer of the 'input' listener
SubmitSearch ==
    /\ page = "lawyers"
    /\ Len(net) < MaxInFlight
    /\ SetLaw(performSearch(LawState), net)
    /\ UNCHANGED <<page, accVars, docVars, chatVars, srvUser, srvConn>>

\* click on a link of #paginationContainer, of an enabled or a disabled item
ClickPage ==
    /\ page = "lawyers"
    /\ Len(net) < MaxInFlight
    /\ \E item \in Range(paginationContainer) :
         SetLaw(paginationClick(LawState, item), net)
    /\ UNCHANGED <<page, accVars, docVars, chatVars, srvUser, srvConn>>

\* click on the .btn-view-profile of a card
ClickViewProfile ==
    /\ page = "lawyers"
    /\ Len(net) < MaxInFlight
    /\ \E card \in Range(lawyersGrid) :
         SetLaw(viewLawyerProfile(LawState, card.lawyer.id), net)
    /\ UNCHANGED <<page, accVars, docVars, chatVars, srvUser, srvConn>>

\* click on the .btn-connect of a card
ClickConnect ==
    /\ page = "lawyers"
    /\ \E card \in Range(lawyersGrid) :
         /\ card.connect
         /\ SetLaw(showConnectionModal(LawState, card.lawyer.id), net)
    /\ UNCHANGED <<page, accVars, docVars, chatVars, srvUser, srvConn>>

\* click on #connectButton of the profile modal
ClickModalConnect ==
    /\ page = "lawyers"
    /\ profileModal.shown /\ profileModal.connect
    /\ SetLaw(showConnectionModal(LawState, profileModal.lawyer.id), net)
    /\ UNCHANGED <<page, accVars, docVars, chatVars, srvUser, srvConn>>

\* 'submit' on #connectionForm
SubmitConnection ==
    /\ page = "lawyers"
    /\ Len(net) < MaxInFlight
    /\ connectionModal.shown
    /\ \E case_description \in {<<>>, <<" ">>, <<"t">>} :
         SetLaw(handleConnectionRequest(LawState, case_description), net)
    /\ UNCHANGED <<page, accVars, docVars, chatVars, srvUser, srvConn>>

\* GET /auth/verify settles
SettleVerify ==
    /\ \E i \in 1..Len(net), status \in Statuses :
         /\ net[i].kind = "verify"
         /\ SetLaw(checkAuthSettled(LawState, status, SrvUserRecord), RemoveAt(net, i))
    /\ UNCHANGED <<page, accVars, docVars, chatVars, srvUser, srvConn>>

\* GET /lawyers/specializations settles
SettleSpecializations ==
    /\ page = "lawyers"
    /\ \E i \in 1..Len(net), status \in Statuses :
         /\ net[i].kind = "getSpecializations"
         /\ SetLaw(loadSpecializationsSettled(LawState, status, <<"criminal">>),
                   RemoveAt(net, i))
    /\ UNCHANGED <<page, accVars, docVars, chatVars, srvUser, srvConn>>

\* the lawyers the server knows, with the logged-in user's connection to each
ServerLawyers == [k \in 1..MaxLawyers |-> Lawyer(k, srvConn[k])]

\* what GET /lawyers/search can answer to a request: the page asked for, of any
\* number of pages
SearchResponses(r) ==
    {[lawyers |-> IF pages = 0 THEN <<>> ELSE ServerLawyers,
      pagination |-> [page |-> r.params.page, pages |-> pages]] : pages \in 0..MaxPages}

SettleSearch ==
    /\ page = "lawyers"
    /\ \E i \in 1..Len(net), status \in Statuses :
         /\ net[i].kind = "search"
         /\ \E response \in SearchResponses(net[i]) :
              SetLaw(loadLawyersSettled(LawState, status, response), RemoveAt(net, i))
    /\ UNCHANGED <<page, accVars, docVars, chatVars, srvUser, srvConn>>

\* what GET /lawyers/profile/:id can answer
ProfileResponses(r) ==
    {[lawyer |-> Lawyer(r.lawyerId, st), connection_status |-> srvConn[r.lawyerId]] :
        st \in {"", srvConn[r.lawyerId]}}

SettleProfile ==
    /\ page = "lawyers"
    /\ \E i \in 1..Len(net), status \in Statuses :
         /\ net[i].kind = "profile"
         /\ \E response \in ProfileResponses(net[i]) :
              SetLaw(viewLawyerProfileSettled(LawState, status, response), RemoveAt(net, i))
    /\ UNCHANGED <<page, accVars, docVars, chatVars, srvUser, srvConn>>

\* POST /lawyers/connect settles: the server accepts a first request of a
\* logged-in user to another user
SettleConnect ==
    /\ page = "lawyers"
    /\ \E i \in 1..Len(net), status \in Statuses :
         /\ net[i].kind = "connect"
         /\ status = "ok" => /\ srvUser # 0
                             /\ srvUser # net[i].lawyerId
                             /\ srvConn[net[i].lawyerId] = ""
         /\ srvConn' = IF status = "ok"
                       THEN [srvConn EXCEPT ![net[i].lawyerId] = "pending"]
                       ELSE srvConn
         /\ SetLaw(handleConnectionRequestSettled(LawState, status), RemoveAt(net, i))
    /\ UNCHANGED <<page, accVars, docVars, chatVars, srvUser>>

NextLawyers ==
    \/ ChangeFilter
    \/ SubmitSearch
    \/ ClickPage
    \/ ClickViewProfile
    \/ ClickConnect
    \/ ClickModalConnect
    \/ SubmitConnection
    \/ SettleVerify
    \/ SettleSpecializations
    \/ SettleSearch
    \/ SettleProfile
    \/ SettleConnect

SpecLawyers == InitLawyers /\ [][NextLawyers]_vars

(***************************************************************************)
(* ProfileManager                                                           *)
(***************************************************************************)
\* a request of the profile, login and register pages: by is the function
\* that awaits it, data what the server stores of it (credentials are
\* checked by the server and not kept)
AccReq(kind, by, data) == [kind |-> kind, by |-> by, data |-> data]

AccState ==
    [currentUser |-> currentUser,
     isLoading |-> isLoading,
     user |-> user,
     connectionRequests |-> connectionRequests,
     profileRegions |-> profileRegions,
     fieldErrors |-> {},
     alerts |-> <<>>,
     out |-> <<>>]

\* loadProfile up to its await (ProfileManager.showLoading does nothing)
loadProfile(s) == [s EXCEPT !.out = Append(@, AccReq("getProfile", "loadProfile", <<>>))]

\* updateStats up to its first await
updateStats(s) == [s EXCEPT !.out = Append(@, AccReq("getDocuments", "updateStats", <<>>))]

\* loadRecentDocuments up to its await
loadRecentDocuments(s) ==
    [s EXCEPT !.out = Append(@, AccReq("getDocuments", "loadRecentDocuments", <<>>))]

\* loadConnectionRequests up to its await
loadConnectionRequests(s) ==
    IF s.user.user_type # "lawyer" THEN s
    ELSE [s EXCEPT !.out = Append(@, AccReq("getConnections", "loadConnectionRequests", <<>>))]

\* loadProfile from its await on: displayProfile (updateSidebar starts
\* updateStats), loadRecentActivity (no request), loadRecentDocuments and, for
\* a lawyer, loadConnectionRequests
loadProfileSettled(s, r, response_user) ==
    IF r.state = "resolved" /\ r.success
    THEN LET s1 == [s EXCEPT !.user = response_user]
         IN  loadConnectionRequests(loadRecentDocuments(updateStats(s1)))
    ELSE showAlert(s, "error", "Failed to load profile")

\* updateStats from an await on: after the documents (#documentCount is
\* written, which nothing reads) the stats of a lawyer; the catch only logs
updateStatsSettled(s, r, awaited, count) ==
    IF awaited = "getDocuments"
    THEN IF r.state = "resolved" /\ s.user.user_type = "lawyer"
         THEN [s EXCEPT !.out = Append(@, AccReq("getLawyerStats", "updateStats", <<>>))]
         ELSE s
    ELSE IF r.state = "resolved" /\ r.success
         THEN [s EXCEPT !.profileRegions.connectionCount = count]
         ELSE s

\* loadRecentDocuments from its await on
loadRecentDocumentsSettled(s, r, count) ==
    [s EXCEPT !.profileRegions.recentDocuments =
         IF r.state = "rejected" THEN "failed"
         ELSE IF r.success /\ count > 0 THEN "list"
         ELSE "empty"]

\* loadConnectionRequests from its await on: the pending requests, each with
\* an Accept and a Decline button (#pendingCount is the number of items)
loadConnectionRequestsSettled(s, r, connections) ==
    IF r.state = "rejected"
    THEN [s EXCEPT !.connectionRequests = [panel |-> "failed", items |-> <<>>]]
    ELSE IF ~r.success THEN s
    ELSE LET pendingRequests ==
                 SortedSeq({id \in DOMAIN connections : connections[id] = "pending"})
         IN  [s EXCEPT !.connectionRequests =
                  [panel |-> IF pendingRequests = <<>> THEN "empty" ELSE "list",
                   items |-> pendingRequests]]

\* handleProfileUpdate up to its await
handleProfileUpdate(s, data) ==
    IF s.isLoading THEN s
    ELSE IF trim(data.name) = <<>> THEN showAlert(s, "warning", "Name is required")
    ELSE [s EXCEPT !.isLoading = TRUE,
                   !.out = Append(@, AccReq("updateProfile", "handleProfileUpdate", data))]

\* handleProfileUpdate from its await on, the finally block included
handleProfileUpdateSettled(s, r) ==
    LET s1 == IF r.state = "resolved" /\ r.success
              THEN loadProfile(showAlert(s, "success", "Profile updated successfully!"))
              ELSE showAlert(s, "error", "Failed to update profile")
    IN  [s1 EXCEPT !.isLoading = FALSE]

\* validatePasswordForm without the comparison to the confirmation
validatePasswordForm_NoMatch(data) ==
    IF data.current_password = <<>> THEN "Current password is required"
    ELSE IF data.new_password = <<>> \/ Len(data.new_password) < 6
    THEN "New password must be at least 6 characters"
    ELSE ""

\* validatePasswordForm: the warning it shows ('': none, it returns true)
validatePasswordForm(data) ==
    IF data.current_password = <<>> THEN "Current password is required"
    ELSE IF data.new_password = <<>> \/ Len(data.new_password) < 6
    THEN "New password must be at least 6 characters"
    ELSE IF data.new_password # data.confirm_password
    THEN "Password confirmation does not match"
    ELSE ""

\* handlePasswordChange without its isLoading guard
handlePasswordChange_IgnoresFlag(s, data) ==
    IF validatePasswordForm(data) # ""
    THEN showAlert(s, "warning", validatePasswordForm(data))
    ELSE [s EXCEPT !.isLoading = TRUE,
                   !.out = Append(@, AccReq("changePassword", "handlePasswordChange", <<>>))]

\* handlePasswordChange up to its await
handlePasswordChange(s, data) ==
    IF s.isLoading THEN s
    ELSE IF validatePasswordForm(data) # ""
    THEN showAlert(s, "warning", validatePasswordForm(data))
    ELSE [s EXCEPT !.isLoading = TRUE,
                   !.out = Append(@, AccReq("changePassword", "handlePasswordChange", <<>>))]

\* handlePasswordChange from its await on, the finally block included
handlePasswordChangeSettled(s, r) ==
    LET s1 == IF r.state = "resolved" /\ r.success
              THEN showAlert(s, "success", "Password changed successfully!")
              ELSE showAlert(s, "error", "Failed to change password")
    IN  [s1 EXCEPT !.isLoading = FALSE]

\* respondToConnection up to its await
respondToConnection(s, connectionId, response) ==
    [s EXCEPT !.out = Append(@, AccReq("respond", "respondToConnection",
                                       [connectionId |-> connectionId,
                                        response |-> response]))]

\* respondToConnection from its await on, clearing the rendered requests itself
\* instead of reloading them
respondToConnectionSettled_ClearsList(s, r) ==
    IF r.state = "resolved" /\ r.success
    THEN updateStats([showAlert(s, "success", "Connection request")
                         EXCEPT !.connectionRequests = [panel |-> "empty", items |-> <<>>]])
    ELSE showAlert(s, "error", "Failed to respond to connection")

\* respondToConnection from its await on
respondToConnectionSettled(s, r) ==
    IF r.state = "resolved" /\ r.success
    THEN updateStats(loadConnectionRequests(showAlert(s, "success", "Connection request")))
    ELSE showAlert(s, "error", "Failed to respond to connection")

(***************************************************************************)
(* Auth, Session.logout and the submit listeners of the forms               *)
(* (Utils.showLoading and hideLoading toggle an overlay nothing reads; the   *)
(* redirect after a login, a registration or a logout leaves the page)      *)
(***************************************************************************)
\* the 'submit' listener of #loginForm without its test of the password
loginFormSubmit_IgnoresPassword(s, email, password) ==
    LET errors == IF email = <<>> \/ ~validateEmail(email) THEN {"email"} ELSE {}
        s1 == [s EXCEPT !.fieldErrors = errors]
    IN  IF errors # {} THEN s1
        ELSE [s1 EXCEPT !.out = Append(@, AccReq("login", "Auth.login", <<>>))]

\* the 'submit' listener of #loginForm, up to the await in Auth.login
loginFormSubmit(s, email, password) ==
    LET errors == (IF email = <<>> \/ ~validateEmail(email) THEN {"email"} ELSE {})
                  \cup (IF password = <<>> THEN {"password"} ELSE {})
        s1 == [s EXCEPT !.fieldErrors = errors]
    IN  IF errors # {} THEN s1
        ELSE [s1 EXCEPT !.out = Append(@, AccReq("login", "Auth.login", <<>>))]

\* Auth.login from its await on
loginSettled(s, r, response_user) ==
    IF r.state = "resolved" /\ r.success
    THEN showAlert([s EXCEPT !.currentUser = response_user], "success", "Login successful")
    ELSE showAlert(s, "danger", "Login failed")

\* the 'submit' listener of #registerForm, up to the await in Auth.register;
\* terms is the state of input[name="terms"]
registerFormSubmit(s, userData, confirmPassword, terms) ==
    LET errors ==
            (IF userData.name = <<>> THEN {"name"} ELSE {})
            \cup (IF userData.email = <<>> \/ ~validateEmail(userData.email)
                  THEN {"email"} ELSE {})
            \cup (IF userData.password = <<>> \/ ~validatePassword(userData.password)
                  THEN {"password"} ELSE {})
            \cup (IF userData.password # confirmPassword THEN {"confirm_password"} ELSE {})
        s1 == [s EXCEPT !.fieldErrors = errors]
        s2 == IF terms = "unchecked"
              THEN showAlert(s1, "warning", "Please agree to the Terms and Conditions")
              ELSE s1
    IN  IF errors # {} \/ terms = "unchecked" THEN s2
        ELSE [s2 EXCEPT !.out = Append(@, AccReq("register", "Auth.register", <<>>))]

\* Auth.register from its await on
registerSettled(s, r, response_user) ==
    IF r.state = "resolved" /\ r.success
    THEN showAlert([s EXCEPT !.currentUser = response_user], "success",
                   "Registration successful")
    ELSE showAlert(s, "danger", "Registration failed")

\* the second 'submit' listener of #changePasswordForm, up to the await in
\* Auth.changePassword
changePasswordFormSubmit(s, data) ==
    LET errors ==
            (IF data.current_password = <<>> THEN {"current_password"} ELSE {})
            \cup (IF data.new_password = <<>> \/ ~validatePassword(data.new_password)
                  THEN {"new_password"} ELSE {})
            \cup (IF data.new_password # data.confirm_password
                  THEN {"confirm_password"} ELSE {})
        s1 == [s EXCEPT !.fieldErrors = errors]
    IN  IF errors # {} THEN s1
        ELSE [s1 EXCEPT !.out = Append(@, AccReq("changePassword", "Auth.changePassword",
                                                 <<>>))]

\* Auth.changePassword from its await on
changePasswordSettled(s, r) ==
    IF r.state = "resolved" /\ r.success
    THEN showAlert(s, "success", "Password changed successfully!")
    ELSE showAlert(s, "danger", "Failed to change password")

\* Session.logout up to its await
logout(s) == [s EXCEPT !.out = Append(@, AccReq("logout", "Session.logout", <<>>))]

\* Session.logout from its await on: response.success is not looked at
logoutSettled(s, r) ==
    IF r.state = "resolved" THEN [s EXCEPT !.currentUser = NoUser]
    ELSE showAlert(s, "danger", "Logout failed")

(***************************************************************************)
(* Login, register and profile pages                                        *)
(***************************************************************************)
SetAcc(s, rest) ==
    /\ currentUser' = s.currentUser
    /\ isLoading' = s.isLoading
    /\ user' = s.user
    /\ connectionRequests' = s.connectionRequests
    /\ profileRegions' = s.profileRegions
    /\ fieldErrors' = s.fieldErrors
    /\ alerts' = s.alerts
    /\ net' = rest \o s.out
    /\ UNCHANGED <<page, docVars, chatVars, srvConn, currentLawyers, currentPage,
                   totalPages, specializations, specializationFilter, lawyersGrid,
                   paginationContainer, paginationListeners, profileModal,
             connectionModal>>

\* DOMContentLoaded: Session.checkAuth() and, on the profile page, new
\* ProfileManager(): constructor and init(), up to the await of loadProfile
InitAccount ==
    /\ page \in {"login", "register", "profile"}
    /\ NoDocs
    /\ NoChat
    /\ srvUser \in Users
    /\ srvName = <<"a">>
    /\ srvConnections \in [1..MaxConnections -> {"pending", "accepted"}]
    /\ srvConn = <<>>
    /\ currentUser = NoUser
    /\ currentLawyers = <<>>
    /\ currentPage = 1
    /\ totalPages = 1
    /\ isLoading = FALSE
    /\ specializations = <<>>
    /\ specializationFilter = ""
    /\ lawyersGrid = <<>>
    /\ paginationContainer = <<>>
    /\ paginationListeners = 0
    /\ profileModal = NoProfileModal
    /\ connectionModal = [shown |-> FALSE, lawyerId |-> 0]
    /\ user = NoUser
    /\ connectionRequests = [panel |-> "initial", items |-> <<>>]
    /\ profileRegions = NoRegions
    /\ fieldErrors = {}
    /\ alerts = <<>>
    /\ net = <<LawReq("verify", 0, NoParams)>>
             \o (IF page = "profile" THEN loadProfile(AccState).out ELSE <<>>)

\* what a user types into an email, a password or a name field
Emails == {<<>>, <<"a", "@", "b">>, <<"a", " ", "@", "b", ".", "c">>, <<"a", "@", "b", ".", "c">>}
Passwords == {<<>>, <<"p", "p", "p", "p", "p">>, <<"p", "p", "p", "p", "p", "p">>,
              <<"q", "q", "q", "q", "q", "q">>}
Names == {<<>>, <<" ">>, <<"b">>}

\* 'submit' on #loginForm
SubmitLogin ==
    /\ page = "login"
    /\ Len(net) < MaxInFlight
    /\ \E email \in Emails, password \in Passwords :
         SetAcc(loginFormSubmit(AccState, email, password), net)
    /\ UNCHANGED <<srvUser, srvName, srvConnections>>

\* 'submit' on #registerForm
SubmitRegister ==
    /\ page = "register"
    /\ Len(net) < MaxInFlight
    /\ \E userData \in [name : Names, email : Emails, password : Passwords],
          confirmPassword \in Passwords, terms \in {"checked", "unchecked", "absent"} :
         SetAcc(registerFormSubmit(AccState, userData, confirmPassword, terms), net)
    /\ UNCHANGED <<srvUser, srvName, srvConnections>>

\* 'submit' on #editProfileForm
SubmitEditProfile ==
    /\ page = "profile"
    /\ Len(net) < MaxInFlight
    /\ \E name \in Names : SetAcc(handleProfileUpdate(AccState, [name |-> name]), net)
    /\ UNCHANGED <<srvUser, srvName, srvConnections>>

\* 'submit' on #changePasswordForm: the listener of ProfileManager, then the
\* listener added at line 871
SubmitChangePassword ==
    /\ page = "profile"
    /\ Len(net) < MaxInFlight
    /\ \E data \in [current_password : {<<>>, <<"p", "p", "p", "p", "p", "p">>},
                    new_password : Passwords,
                    confirm_password : {<<"p", "p", "p", "p", "p">>,
                                        <<"p", "p", "p", "p", "p", "p">>}] :
         SetAcc(changePasswordFormSubmit(handlePasswordChange(AccState, data), data), net)
    /\ UNCHANGED <<srvUser, srvName, srvConnections>>

\* click on the Accept or the Decline button of a rendered connection request
ClickRespond ==
    /\ page = "profile"
    /\ Len(net) < MaxInFlight
    /\ \E connectionId \in Range(connectionRequests.items),
          response \in {"accepted", "declined"} :
         SetAcc(respondToConnection(AccState, connectionId, response), net)
    /\ UNCHANGED <<srvUser, srvName, srvConnections>>

\* window.logout(), from the navbar
ClickLogout ==
    /\ page \in {"login", "register", "profile"}
    /\ Len(net) < MaxInFlight
    /\ SetAcc(logout(AccState), net)
    /\ UNCHANGED <<srvUser, srvName, srvConnections>>

\* a request of these pages settles.  The server logs a user in on a
\* successful login or registration and out on a successful logout, stores
\* the name of a profile update, answers the requests about the account to a
\* logged-in user only and those about connections to a lawyer only, and
\* lets a pending connection be accepted or declined
SettleAccount ==
    \E i \in 1..Len(net), resp \in Responses :
        page \in {"login", "register", "profile"} /\
        LET req == net[i]
            r == request(resp)
            rest == RemoveAt(net, i)
            done == r.state = "resolved" /\ r.success
            lawyer == srvUser \in 1..MaxLawyers
        IN  \/ /\ req.kind \in {"login", "register"}
               /\ \E u \in Users :
                    /\ IF done THEN u # 0 ELSE u = srvUser
                    /\ srvUser' = u
                    /\ IF req.kind = "login"
                       THEN SetAcc(loginSettled(AccState, r, UserRecord(u, srvName)), rest)
                       ELSE SetAcc(registerSettled(AccState, r, UserRecord(u, srvName)), rest)
               /\ UNCHANGED <<srvName, srvConnections>>
            \/ /\ req.kind = "logout"
               /\ srvUser' = IF done THEN 0 ELSE srvUser
               /\ SetAcc(logoutSettled(AccState, r), rest)
               /\ UNCHANGED <<srvName, srvConnections>>
            \/ /\ req.kind = "getProfile"
               /\ done => srvUser # 0
               /\ SetAcc(loadProfileSettled(AccState, r, SrvUserRecord), rest)
               /\ UNCHANGED <<srvUser, srvName, srvConnections>>
            \/ /\ req.kind = "updateProfile"
               /\ done => srvUser # 0
               /\ srvName' = IF done THEN req.data.name ELSE srvName
               /\ SetAcc(handleProfileUpdateSettled(AccState, r), rest)
               /\ UNCHANGED <<srvUser, srvConnections>>
            \/ /\ req.kind = "changePassword"
               /\ done => srvUser # 0
               /\ IF req.by = "handlePasswordChange"
                  THEN SetAcc(handlePasswordChangeSettled(AccState, r), rest)
                  ELSE SetAcc(changePasswordSettled(AccState, r), rest)
               /\ UNCHANGED <<srvUser, srvName, srvConnections>>
            \/ /\ req.kind = "getDocuments"
               /\ done => srvUser # 0
               /\ IF req.by = "updateStats"
                  THEN SetAcc(updateStatsSettled(AccState, r, req.kind, 0), rest)
                  ELSE \E count \in 0..MaxDocs :
                           SetAcc(loadRecentDocumentsSettled(AccState, r, count), rest)
               /\ UNCHANGED <<srvUser, srvName, srvConnections>>
            \/ /\ req.kind = "getLawyerStats"
               /\ done => lawyer
               /\ SetAcc(updateStatsSettled(AccState, r, req.kind,
                             Cardinality({c \in DOMAIN srvConnections :
                                             srvConnections[c] = "accepted"})), rest)
               /\ UNCHANGED <<srvUser, srvName, srvConnections>>
            \/ /\ req.kind = "getConnections"
               /\ done => lawyer
               /\ SetAcc(loadConnectionRequestsSettled(AccState, r, srvConnections), rest)
               /\ UNCHANGED <<srvUser, srvName, srvConnections>>
            \/ /\ req.kind = "respond"
               /\ done => lawyer /\ srvConnections[req.data.connectionId] = "pending"
               /\ srvConnections' =
                      IF done
                      THEN [srvConnections EXCEPT ![req.data.connectionId] = req.data.response]
                      ELSE srvConnections
               /\ SetAcc(respondToConnectionSettled(AccState, r), rest)
               /\ UNCHANGED <<srvUser, srvName>>

NextAccount ==
    \/ SubmitLogin
    \/ SubmitRegister
    \/ SubmitEditProfile
    \/ SubmitChangePassword
    \/ ClickRespond
    \/ ClickLogout
    \/ SettleVerify
    \/ SettleAccount

SpecAccount == InitAccount /\ [][NextAccount]_vars

\* the profile page and the lawyers page together
SpecAccountLawyers == (InitAccount \/ InitLawyers) /\ [][NextAccount \/ NextLawyers]_vars

(***************************************************************************)
(* Claims: DocumentManager                                                  *)
(***************************************************************************)
\* the requests of one kind among q
KindOf(q, kind) == SelectSeq(q, LAMBDA r : r.kind = kind)

AcceptableFile(file) ==
    /\ file.size <= 50 * 1024 * 1024
    /\ file.type \in {"application/pdf", "application/msword",
                      "application/vnd.openxmlformats-officedocument.wordprocessingml.document",
                      "text/plain"}

\* C1: no upload request is ever in flight for a file over 50MB or of a type
\* outside the allow-list, whichever entry point issued it.
C1_NoInvalidUpload ==
    page = "documents" =>
        \A i \in 1..Len(net) : net[i].kind = "upload" => AcceptableFile(net[i].file)

IsWarning(a) == a.type = "warning"

\* C2: while uploadInProgress is true every uploadFile call (direct, through
\* processFiles or through the form) shows a warning, issues no request and leaves
\* the flag true; one event of several valid files uploads only the first; and no
\* settled request issues an upload (a rejected file is not queued).
C2_UploadRejectedWhileInProgress ==
    page = "documents" =>
        /\ uploadInProgress =>
             /\ \A file \in Files :
                  LET s == uploadFile(DocState, file)
                  IN  /\ s.alerts = <<Alert("warning", "Another upload is in progress")>>
                      /\ s.out = <<>>
                      /\ s.uploadInProgress
             /\ \A files \in SeqsUpTo(Files, MaxFiles) :
                  /\ processFiles(DocState, files).out = <<>>
                  /\ processFiles(DocState, files).uploadInProgress
                  /\ Len(SelectSeq(processFiles(DocState, files).alerts, IsWarning))
                        = Len(SelectSeq(files, AcceptableFile))
             /\ documentFile # NoFile =>
                  /\ handleUpload(DocState).out = <<>>
                  /\ handleUpload(DocState).alerts
                        = <<Alert("warning", "Another upload is in progress")>>
        /\ ~uploadInProgress =>
             \A files \in SeqsUpTo(Files, MaxFiles) :
                LET s == processFiles(DocState, files)
                    valid == SelectSeq(files, AcceptableFile)
                IN  /\ Len(s.out) <= 1
                    /\ valid # <<>> =>
                         /\ s.out = <<DocReq("upload", 0, valid[1])>>
                         /\ Len(SelectSeq(s.alerts, IsWarning)) = Len(valid) - 1
        /\ \A status \in Statuses :
             /\ KindOf(uploadFileSettled(DocState, status).out, "upload") = <<>>
             /\ KindOf(loadDocumentsSettled(DocState, status, <<>>).out, "upload") = <<>>
             /\ KindOf(analyzeDocumentSettled(DocState, status).out, "upload") = <<>>
             /\ KindOf(deleteDocumentSettled(DocState, status).out, "upload") = <<>>
        /\ Len(KindOf(net, "upload")) <= 1

\* C2 witness: an upload is in flight and the latest event's upload was refused
\* with the warning.
C2_Witness ==
    /\ page = "documents"
    /\ uploadInProgress
    /\ Len(KindOf(net, "upload")) = 1
    /\ \E i \in 1..Len(alerts) : alerts[i] = Alert("warning", "Another upload is in progress")

SameLetter(a, b) == a = b \/ {a, b} = {"l", "L"}

\* t occurs in text when case is ignored
OccursIgnoringCase(text, t) ==
    \E pos \in 0..(Len(text) - Len(t)) :
        \A k \in 1..Len(t) : SameLetter(text[pos + k], t[k])

DocContains(doc, t) ==
    \/ OccursIgnoringCase(doc.title, t)
    \/ doc.summary # <<>> /\ OccursIgnoringCase(doc.summary, t)

\* the arguments the two listeners pass: the box's value, or none (the default '')
ListenerTerms == {documentSearch, <<>>}

\* C4 as stated: filterDocuments(t) renders only documents that contain t, and all
\* of them when no status filter is selected.
C4_FilterByArgument ==
    page = "documents" =>
        \A t \in ListenerTerms :
            LET shown == filterDocuments(DocState, t).documentsGrid.cards
            IN  /\ \A i \in 1..Len(shown) : DocContains(shown[i], t)
                /\ typeFilter = "" =>
                     shown = SelectSeq(currentDocuments, LAMBDA d : DocContains(d, t))

\* C4 amended: the term filterDocuments(t) filters by is the search box's value
\* when that is not empty, and t otherwise; it renders exactly the documents that
\* contain that term, case ignored (and have the selected status, if one is).
C4_FilterByEffectiveTerm ==
    page = "documents" =>
        \A t \in Strings :
            LET term == IF documentSearch # <<>> THEN documentSearch ELSE t
                shown == filterDocuments(DocState, t).documentsGrid.cards
            IN  /\ \A i \in 1..Len(shown) : DocContains(shown[i], term)
                /\ shown = SelectSeq(currentDocuments,
                                     LAMBDA d : /\ DocContains(d, term)
                                                /\ typeFilter # "" =>
                                                      d.analysis_status = typeFilter)

\* C4 witness: a search has filtered the grid, keeping a document that matches
\* only when case is ignored and dropping another.
C4_Witness ==
    /\ page = "documents"
    /\ documentSearch # <<>>
    /\ typeFilter = ""
    /\ ~documentsGrid.loading
    /\ Len(documentsGrid.cards) < Len(currentDocuments)
    /\ \E i \in 1..Len(documentsGrid.cards) :
         LET d == documentsGrid.cards[i]
         IN  /\ ~includes(d.title, documentSearch)
             /\ ~includes(d.summary, documentSearch)

(***************************************************************************)
(* Claims: ChatBot                                                          *)
(***************************************************************************)
\* what the handler awaiting request r leaves when r settles with status
ChatSettled(r, status) ==
    CASE r.kind = "getSessions" ->
            loadSessionsSettled(ChatState, status, ServerSessionList, r.cont)
      [] r.kind = "getCategories" -> loadQuickCategoriesSettled(ChatState, status, FALSE)
      [] r.kind = "createSession" ->
            createNewSessionSettled(ChatState, status, srvNextId, r.cont)
      [] r.kind = "getMessages" -> loadSessionSettled(ChatState, status, r.sessionId)
      [] r.kind = "chat" -> sendMessageSettled(ChatState, status, r.sessionId)
      [] r.kind = "deleteSession" -> deleteSessionSettled(ChatState, status, r.sessionId)

DocSettled(r, status) ==
    CASE r.kind = "getDocuments" -> loadDocumentsSettled(DocState, status, r.documents)
      [] r.kind = "upload" -> uploadFileSettled(DocState, status)
      [] r.kind = "analyze" -> analyzeDocumentSettled(DocState, status)
      [] r.kind = "delete" -> deleteDocumentSettled(DocState, status)

\* C3: once the session-list request has failed (the failure panel is what
\* #chatSessions shows), ChatBot.sessions is empty.
C3_FailedLoadLeavesNoSessions ==
    page = "chat" => (chatSessions.panel = "failed" => sessions = <<>>)

\* C9: sendMessage with a message and no session selected first issues the
\* session creation and nothing else; when the creation succeeds the chat request
\* goes to the created session; when it fails no chat request is issued.
C9_ImplicitSessionCreation ==
    page = "chat" =>
        /\ (messageInput # "" /\ ~isTyping /\ currentSessionId = 0) =>
               sendMessage(ChatState).out = <<ChatReq("createSession", 0, "send")>>
        /\ \A i \in 1..Len(net) :
               (net[i].kind = "createSession" /\ net[i].cont = "send") =>
                   /\ KindOf(ChatSettled(net[i], "ok").out, "chat")
                         = <<ChatReq("chat", srvNextId, "none")>>
                   /\ KindOf(ChatSettled(net[i], "fail").out, "chat") = <<>>
                   /\ KindOf(ChatSettled(net[i], "reject").out, "chat") = <<>>

\* C7: a 2xx response with success:false leaves the client state, the alerts and
\* the requests issued exactly as a rejected request does, whatever request of
\* whatever manager it answers.
C7_FailureTreatedLikeError ==
    \A i \in 1..Len(net) :
        /\ page = "documents" => DocSettled(net[i], "fail") = DocSettled(net[i], "reject")
        /\ page = "chat" => ChatSettled(net[i], "fail") = ChatSettled(net[i], "reject")

(***************************************************************************)
(* Claims: LawyerNetwork                                                    *)
(***************************************************************************)
ConnectionStatuses == {"", "pending", "accepted", "declined"}

\* every lawyer canConnect can be handed
LawyerInputs == {Lawyer(id, st) : id \in 1..MaxLawyers, st \in ConnectionStatuses}

\* C5: canConnect is falsy, a rendered card has no Connect button and the profile
\* modal hides its Connect button whenever the lawyer's connection status is set
\* or the current user is the lawyer.
C5_NoConnectWhenConnectedOrSelf ==
    page = "lawyers" =>
        /\ \A lawyer \in LawyerInputs :
               (lawyer.connection_status # "" \/ currentUser.id = lawyer.id) =>
                   ~Truthy(canConnect(LawState, lawyer))
        /\ \A card \in Range(lawyersGrid) :
               (card.lawyer.connection_status # "" \/ currentUser.id = card.lawyer.id) =>
                   ~card.connect
        /\ (/\ profileModal.shown
            /\ \/ profileModal.lawyer.connection_status # ""
               \/ profileModal.connectionStatus # ""
               \/ currentUser.id = profileModal.lawyer.id) => ~profileModal.connect

\* the user is a lawyer and sees the own card and the card of a lawyer already
\* connected with, neither with a Connect button
C5_Witness ==
    /\ page = "lawyers"
    /\ currentUser # NoUser
    /\ \E card \in Range(lawyersGrid) : card.lawyer.id = currentUser.id /\ ~card.connect
    /\ \E card \in Range(lawyersGrid) :
           card.lawyer.connection_status # "" /\ ~card.connect
    /\ profileModal.shown /\ profileModal.connectionStatus # "" /\ ~profileModal.connect

ActiveItems(q) == SelectSeq(q, LAMBDA item : item.cls = "active")

\* the request loadLawyers(p) issues: page p with the filter values of the moment
SearchRequest(p) ==
    LawReq("search", 0, [page |-> p, specialization |-> specializationFilter,
                         per_page |-> per_page])

\* C8 as stated: loadLawyers(p) requests page p with the current filter values,
\* and when the request succeeds currentLawyers, currentPage and totalPages are
\* those of the response and exactly one page item, the one numbered currentPage,
\* is rendered as active.
C8_LoadedPageIsActive ==
    page = "lawyers" =>
        /\ \A p \in 1..MaxPages :
               ~isLoading => loadLawyers(LawState, p).out = <<SearchRequest(p)>>
        /\ \A i \in 1..Len(net) :
               net[i].kind = "search" =>
                   \A response \in SearchResponses(net[i]) :
                       LET s == loadLawyersSettled(LawState, "ok", response)
                       IN  /\ s.currentLawyers = response.lawyers
                           /\ s.currentPage = response.pagination.page
                           /\ s.totalPages = response.pagination.pages
                           /\ ActiveItems(s.paginationContainer)
                                 = <<PageItem("number", s.currentPage, "active")>>

\* C8 amended: as C8, but the one active item is rendered only when totalPages > 1
\* and currentPage lies in 1..totalPages; with totalPages <= 1 the pagination is
\* rendered empty, and with currentPage outside 1..totalPages no item is active.
C8_LoadedPageIsActiveIfSeveralPages ==
    page = "lawyers" =>
        /\ \A p \in 1..MaxPages :
               ~isLoading => loadLawyers(LawState, p).out = <<SearchRequest(p)>>
        /\ \A i \in 1..Len(net) :
               net[i].kind = "search" =>
                   \A response \in SearchResponses(net[i]) :
                       LET s == loadLawyersSettled(LawState, "ok", response)
                       IN  /\ s.currentLawyers = response.lawyers
                           /\ s.currentPage = response.pagination.page
                           /\ s.totalPages = response.pagination.pages
                           /\ s.totalPages <= 1 => s.paginationContainer = <<>>
                           /\ ActiveItems(s.paginationContainer)
                                 = IF /\ s.totalPages > 1
                                      /\ s.currentPage >= 1
                                      /\ s.currentPage <= s.totalPages
                                   THEN <<PageItem("number", s.currentPage, "active")>>
                                   ELSE <<>>

\* the search specialization=criminal&page=2 has answered: page 2 is active
C8_Witness ==
    /\ page = "lawyers"
    /\ ~isLoading
    /\ specializationFilter = "criminal"
    /\ currentLawyers = ServerLawyers
    /\ currentPage = 2
    /\ totalPages = 2
    /\ ActiveItems(paginationContainer) = <<PageItem("number", 2, "active")>>

(***************************************************************************)
(* Claims: all managers                                                     *)
(***************************************************************************)
\* C10: when a mutation succeeds (document upload, re-analysis or delete, chat
\* session create or delete, connection request) the manager issues a GET of the
\* list the mutation affects and leaves its local copy of the list as it is.
C10_RefetchAfterMutation ==
    \A i \in 1..Len(net) :
        /\ (page = "documents" /\ net[i].kind \in {"upload", "analyze", "delete"}) =>
               LET s == DocSettled(net[i], "ok")
               IN  /\ KindOf(s.out, "getDocuments") # <<>>
                   /\ s.currentDocuments = currentDocuments
        /\ (page = "chat" /\ net[i].kind \in {"createSession", "deleteSession"}) =>
               LET s == ChatSettled(net[i], "ok")
               IN  /\ KindOf(s.out, "getSessions") # <<>>
                   /\ s.sessions = sessions
        /\ (page = "lawyers" /\ net[i].kind = "connect") =>
               LET s == handleConnectionRequestSettled(LawState, "ok")
               IN  /\ KindOf(s.out, "search") # <<>>
                   /\ s.currentLawyers = currentLawyers

(***************************************************************************)
(* Claims: API.request, Session, Auth and ProfileManager                    *)
(***************************************************************************)
\* a 2xx response with a JSON body that says success
Success ==
    [arrived |-> TRUE, ok |-> TRUE, json |-> TRUE, success |-> TRUE, message |-> ""]

\* the state a request of the login, register and profile pages leaves when
\* it settles as r
AccSettled(req, r, response_user) ==
    CASE req.kind = "verify" -> checkAuthSettled(AccState, StatusOf(r), response_user)
      [] req.kind = "login" -> loginSettled(AccState, r, response_user)
      [] req.kind = "register" -> registerSettled(AccState, r, response_user)
      [] req.kind = "logout" -> logoutSettled(AccState, r)
      [] req.kind = "getProfile" -> loadProfileSettled(AccState, r, response_user)
      [] req.kind = "updateProfile" -> handleProfileUpdateSettled(AccState, r)
      [] req.kind = "changePassword" ->
            IF req.by = "handlePasswordChange"
            THEN handlePasswordChangeSettled(AccState, r)
            ELSE changePasswordSettled(AccState, r)
      [] req.kind = "getDocuments" ->
            IF req.by = "updateStats"
            THEN updateStatsSettled(AccState, r, req.kind, 0)
            ELSE loadRecentDocumentsSettled(AccState, r, 0)
      [] req.kind = "getLawyerStats" -> updateStatsSettled(AccState, r, req.kind, 0)
      [] req.kind = "getConnections" ->
            loadConnectionRequestsSettled(AccState, r, srvConnections)
      [] req.kind = "respond" -> respondToConnectionSettled(AccState, r)

\* C11: a call of API.request is one request in flight and is not issued again
\* when it fails; a response whose status is not 2xx rejects with the message
\* the server sent, and a response whose status is 2xx resolves.
C11_RequestContract ==
    \A resp \in Responses :
        /\ (resp.arrived /\ ~resp.ok) =>
               /\ request(resp).state = "rejected"
               /\ resp.message # "" => request(resp).message = resp.message
        /\ (resp.arrived /\ resp.ok) => request(resp).state = "resolved"
        /\ \A i \in 1..Len(net) :
               (page \in {"login", "register", "profile"} /\ request(resp).state = "rejected")
                   => KindOf(AccSettled(net[i], request(resp), NoUser).out, net[i].kind) = <<>>

\* C12: window.currentUser is the user the server returned after a successful
\* verify, login, registration or profile update, and null after a successful
\* logout and after a verify that failed or found nobody.
C12_CurrentUserTracksServer ==
    page \in {"login", "register", "profile"} =>
        \A i \in 1..Len(net) :
            LET req == net[i]
                r == request(Success)
            IN  /\ req.kind \in {"login", "register"} =>
                       \A u \in Users \ {0} :
                           AccSettled(req, r, UserRecord(u, srvName)).currentUser
                               = UserRecord(u, srvName)
                /\ req.kind = "verify" =>
                       /\ AccSettled(req, r, SrvUserRecord).currentUser = SrvUserRecord
                       /\ \A resp \in Responses :
                              StatusOf(request(resp)) # "ok" =>
                                  AccSettled(req, request(resp), SrvUserRecord).currentUser
                                      = NoUser
                /\ req.kind = "logout" => AccSettled(req, r, NoUser).currentUser = NoUser
                /\ (req.kind = "updateProfile" /\ srvUser # 0
                    /\ KindOf(net, "verify") = <<>>) =>
                       AccSettled(req, r, NoUser).currentUser
                           = UserRecord(srvUser, req.data.name)


\* C13: when a request of a manager operation is rejected, the operation
\* shows an alert and does not issue the request again.
C13_FailureGivesAlert ==
    page = "chat" =>
        \A i \in 1..Len(net) :
            /\ ChatSettled(net[i], "reject").alerts # <<>>
            /\ KindOf(ChatSettled(net[i], "reject").out, net[i].kind) = <<>>


(***************************************************************************)
(* Claims: the upload flag                                                  *)
(***************************************************************************)
\* C14: at most one upload request is in flight, and uploadInProgress is true
\* exactly when one is.
C14_FlagIffUploadInFlight ==
    page = "documents" =>
        /\ Len(KindOf(net, "upload")) <= 1
        /\ uploadInProgress <=> KindOf(net, "upload") # <<>>

\* C14 witness: an upload has just settled with success; none is in flight and the
\* flag is false again.
C14_Witness ==
    /\ page = "documents"
    /\ ~uploadInProgress
    /\ KindOf(net, "upload") = <<>>
    /\ alerts = <<Alert("success", "Document uploaded")>>

\* C15: whatever answers an upload in flight (success, success:false, a non-2xx
\* status, a body that does not parse, a network error), uploadInProgress is false
\* once uploadFile has run to its end, and the next uploadFile call is accepted:
\* it issues its upload.
C15_FlagResetAfterEveryOutcome ==
    page = "documents" =>
        \A i \in 1..Len(net) :
            net[i].kind = "upload" =>
                \A resp \in Responses :
                    LET s == uploadFileSettled(DocState, StatusOf(uploadDocument(resp)))
                    IN  /\ ~s.uploadInProgress
                        /\ \A file \in Files :
                               /\ KindOf(uploadFile(s, file).out, "upload")
                                     = <<DocReq("upload", 0, file)>>
                               /\ uploadFile(s, file).uploadInProgress

\* C15 witness: an upload has just failed; the flag is false and no upload is in
\* flight.
C15_Witness ==
    /\ page = "documents"
    /\ ~uploadInProgress
    /\ KindOf(net, "upload") = <<>>
    /\ alerts = <<Alert("error", "Upload failed")>>


(***************************************************************************)
(* Claims: the isLoading flags                                              *)
(***************************************************************************)
\* the values of #changePasswordForm
PasswordForms ==
    [current_password : Passwords, new_password : Passwords, confirm_password : Passwords]

\* the requests ProfileManager guards with isLoading
Guarded(r) ==
    \/ r.kind = "updateProfile"
    \/ r.kind = "changePassword" /\ r.by = "handlePasswordChange"

\* C16: while ProfileManager.isLoading is true handleProfileUpdate and
\* handlePasswordChange change nothing and issue nothing (so nothing is left to
\* run later), and while LawyerNetwork.isLoading is true loadLawyers does
\* likewise; the flag is false once the guarded request has settled, whatever the
\* answer, and it is true exactly while a guarded request is in flight.
C16_RejectedWhileLoading ==
    /\ page = "profile" =>
         /\ isLoading =>
              /\ \A name \in Names : handleProfileUpdate(AccState, [name |-> name]) = AccState
              /\ \A data \in PasswordForms : handlePasswordChange(AccState, data) = AccState
         /\ \A i \in 1..Len(net) :
              Guarded(net[i]) =>
                  \A resp \in Responses :
                      ~AccSettled(net[i], request(resp), NoUser).isLoading
         /\ isLoading <=> Len(SelectSeq(net, Guarded)) = 1
         /\ Len(SelectSeq(net, Guarded)) <= 1
    /\ page = "lawyers" =>
         /\ isLoading => \A p \in 1..MaxPages : loadLawyers(LawState, p) = LawState
         /\ \A i \in 1..Len(net) :
              net[i].kind = "search" =>
                  \A status \in Statuses, response \in SearchResponses(net[i]) :
                      ~loadLawyersSettled(LawState, status, response).isLoading
         /\ isLoading <=> Len(KindOf(net, "search")) = 1
         /\ Len(KindOf(net, "search")) <= 1

\* C16 witness: a profile update is in flight and a submit of the password form
\* was refused by handlePasswordChange: only the request of the form's other
\* listener is in flight.
C16_Witness ==
    /\ page = "profile"
    /\ isLoading
    /\ KindOf(net, "updateProfile") # <<>>
    /\ KindOf(net, "changePassword") # <<>>
    /\ SelectSeq(net, LAMBDA r : r.kind = "changePassword" /\ Guarded(r)) = <<>>


(***************************************************************************)
(* Claims: pagination state                                                 *)
(***************************************************************************)
\* C17: LawyerNetwork.currentPage and totalPages change only in a step in which a
\* search request settles (they are assigned from its response.pagination), never
\* in a step of local code alone.
C17_PaginationFromResponse ==
    [][(currentPage' # currentPage \/ totalPages' # totalPages) =>
           \E i \in 1..Len(net) : net[i].kind = "search" /\ net' = RemoveAt(net, i)]_vars


(***************************************************************************)
(* Claims: client-side validation                                           *)
(***************************************************************************)
\* what a submit of #changePasswordForm does: the listener of ProfileManager, then
\* the listener added at line 871
submitChangePassword(data) ==
    changePasswordFormSubmit(handlePasswordChange(AccState, data), data)

\* C18: a submit of the change-password form issues PUT /auth/change-password only
\* when the current password is not empty, the new password has at least 6
\* characters and equals its confirmation; otherwise it issues nothing and shows
\* what is wrong: the field errors, and the warning of validatePasswordForm unless
\* the isLoading guard returned first.
C18_PasswordChangeValidated ==
    page = "profile" =>
        \A data \in PasswordForms :
            LET s == submitChangePassword(data)
                valid == /\ data.current_password # <<>>
                         /\ Len(data.new_password) >= 6
                         /\ data.new_password = data.confirm_password
            IN  /\ KindOf(s.out, "changePassword") # <<>> => valid
                /\ ~valid =>
                     /\ s.out = <<>>
                     /\ s.fieldErrors # {}
                     /\ ~isLoading => /\ Len(s.alerts) = 1
                                      /\ s.alerts[1].type = "warning"

\* C18 witness: the form was submitted with a confirmation that differs; the
\* warning and the field error are shown and no change-password request is in
\* flight.
C18_Witness ==
    /\ page = "profile"
    /\ alerts = <<Alert("warning", "Password confirmation does not match")>>
    /\ fieldErrors = {"confirm_password"}
    /\ KindOf(net, "changePassword") = <<>>


\* an email address is well formed when it is some characters, an @, some
\* characters, a dot and some characters, none of them a space or another @
WellFormed(email) ==
    \E at \in 2..(Len(email) - 3) :
        /\ email[at] = "@"
        /\ \A k \in 1..Len(email) : email[k] # " " /\ (email[k] = "@" => k = at)
        /\ \E dot \in (at + 2)..(Len(email) - 1) : email[dot] = "."

\* the case descriptions of the connection form
Descriptions == {<<>>, <<" ">>, <<" ", " ">>, <<"t">>, <<" ", "t">>}

\* C19: a login with no or a malformed email or with no password, a registration
\* with no name, a malformed email, a password of fewer than 6 characters, a
\* confirmation that differs or the terms unchecked, and a connection request
\* whose case description is empty or only spaces, issue no request.
C19_InvalidSubmissionNotSent ==
    /\ page = "login" =>
         \A email \in Emails, password \in Passwords :
             (~WellFormed(email) \/ password = <<>>)
                 => loginFormSubmit(AccState, email, password).out = <<>>
    /\ page = "register" =>
         \A userData \in [name : Names, email : Emails, password : Passwords],
            confirmPassword \in Passwords, terms \in {"checked", "unchecked", "absent"} :
             (\/ userData.name = <<>>
              \/ ~WellFormed(userData.email)
              \/ Len(userData.password) < 6
              \/ userData.password # confirmPassword
              \/ terms = "unchecked")
                 => registerFormSubmit(AccState, userData, confirmPassword, terms).out = <<>>
    /\ page = "lawyers" =>
         \A case_description \in Descriptions :
             (\A k \in 1..Len(case_description) : case_description[k] = " ")
                 => handleConnectionRequest(LawState, case_description).out = <<>>

\* C19 witness: the registration form was submitted with a confirmation that
\* differs; the field error is shown and no registration request is in flight.
C19_Witness ==
    /\ page = "register"
    /\ fieldErrors = {"confirm_password"}
    /\ KindOf(net, "register") = <<>>


(***************************************************************************)
(* Claims: connection requests                                              *)
(***************************************************************************)
\* C20: a step that issues a respond request issues it with 'accepted' or
\* 'declined' for a connection of the rendered list, which holds the pending
\* connections of the list received last; the rendered list changes only in a
\* step in which GET /lawyers/connections settles, and then to the connections
\* the server reports as pending (or to the failure panel); #connectionCount
\* changes only in a step in which GET /lawyers/stats settles.
C20_ConnectionsServerDriven ==
    [][page = "profile" =>
           /\ Len(KindOf(net', "respond")) > Len(KindOf(net, "respond")) =>
                /\ net' = Append(net, net'[Len(net')])
                /\ net'[Len(net')].data.response \in {"accepted", "declined"}
                /\ net'[Len(net')].data.connectionId \in Range(connectionRequests.items)
           /\ connectionRequests' # connectionRequests =>
                /\ \E i \in 1..Len(net) :
                       net[i].kind = "getConnections" /\ net' = RemoveAt(net, i)
                /\ \A id \in Range(connectionRequests'.items) :
                       srvConnections[id] = "pending"
           /\ profileRegions'.connectionCount # profileRegions.connectionCount =>
                \E i \in 1..Len(net) :
                    net[i].kind = "getLawyerStats" /\ net' = RemoveAt(net, i)]_vars

\* C20 witness: the server has accepted a connection on a respond request and
\* the page still renders it as pending, its list not yet fetched again.
C20_Witness ==
    /\ page = "profile"
    /\ srvConnections[1] = "accepted"
    /\ connectionRequests.items = <<1>>
    /\ KindOf(net, "getConnections") # <<>>


(***************************************************************************)
(* Claims: sending a message                                                *)
(***************************************************************************)
\* the chat request that settles in this step, if the step settles one
\* (no handler that runs when a chat request settles issues a chat request)
SettlingChat ==
    {i \in 1..Len(net) :
        /\ net[i].kind = "chat"
        /\ Len(KindOf(net', "chat")) = Len(KindOf(net, "chat")) - 1
        /\ KindOf(net', "chat") = KindOf(RemoveAt(net, i), "chat")}

\* C21: a step in which sendMessage issues its chat request appends exactly one
\* message to #chatMessages, the user's; a step in which a chat request settles
\* appends exactly one message, an assistant message (the reply, or one of the two
\* apologies), and leaves isTyping false.
C21_OneUserAndOneAssistantMessage ==
    [][page = "chat" =>
           /\ Len(KindOf(net', "chat")) > Len(KindOf(net, "chat")) =>
                /\ Len(KindOf(net', "chat")) = Len(KindOf(net, "chat")) + 1
                /\ Len(chatMessages'.added) = Len(chatMessages.added) + 1
                /\ chatMessages'.added[Len(chatMessages'.added)].message_type = "user"
                /\ isTyping'
           /\ Len(KindOf(net', "chat")) < Len(KindOf(net, "chat")) =>
                /\ SettlingChat # {}
                /\ chatMessages'.added = Append(chatMessages.added,
                       chatMessages'.added[Len(chatMessages'.added)])
                /\ chatMessages'.added[Len(chatMessages'.added)].message_type = "assistant"
                /\ chatMessages'.added[Len(chatMessages'.added)].content
                       \in {"ai_response", "error processing", "trouble connecting"}
                /\ ~isTyping']_vars

\* C21 witness: a send is over: the user's message and after it the server's reply
\* are the messages appended, no chat request is in flight and isTyping is false.
C21_Witness ==
    /\ page = "chat"
    /\ Len(chatMessages.added) = 2
    /\ chatMessages.added[1].message_type = "user"
    /\ chatMessages.added[2] = Message("assistant", "ai_response", chatMessages.added[1].session)
    /\ KindOf(net, "chat") = <<>>
    /\ ~isTyping

\* C22: at most one chat request is in flight.
C22_OneChatRequestInFlight ==
    page = "chat" => Len(KindOf(net, "chat")) <= 1


\* C23: when #chatMessages shows the loaded messages of the active session, every
\* assistant message appended to them answers a message posted to that session.
C23_ReplyOnlyInItsSession ==
    page = "chat" =>
        \A k \in 1..Len(chatMessages.added) :
            (/\ chatMessages.added[k].message_type = "assistant"
             /\ chatMessages.base # 0
             /\ chatMessages.base = currentSessionId)
                => chatMessages.added[k].session = currentSessionId


(***************************************************************************)
(* Claims: loading a session                                                *)
(***************************************************************************)
\* C24: when the last message-list request in flight succeeds while a session is
\* active, the messages it renders are those of the session currentSessionId
\* names.
C24_RenderedSessionIsCurrent ==
    page = "chat" =>
        \A i \in 1..Len(net) :
            (/\ net[i].kind = "getMessages"
             /\ Len(KindOf(net, "getMessages")) = 1
             /\ currentSessionId # 0)
                => loadSessionSettled(ChatState, "ok", net[i].sessionId).chatMessages.base
                       = currentSessionId


\* C25: when the only message-list request in flight fails (rejected, or
\* success:false) while the messages of a session are displayed, a sendMessage
\* that follows posts to the session whose messages are displayed.
C25_FailedLoadKeepsActiveSession ==
    page = "chat" =>
        \A i \in 1..Len(net), status \in {"fail", "reject"} :
            (/\ net[i].kind = "getMessages"
             /\ Len(KindOf(net, "getMessages")) = 1
             /\ chatMessages.base # 0
             /\ ~isTyping)
                => LET s == loadSessionSettled(ChatState, status, net[i].sessionId)
                       t == sendMessage([s EXCEPT !.messageInput = "text"])
                   IN  \A k \in 1..Len(t.out) :
                           t.out[k].kind = "chat"
                               => t.out[k].sessionId = s.chatMessages.base


(***************************************************************************)
(* Claims: the order of responses                                           *)
(***************************************************************************)
\* C26: when two document-list requests are in flight and both were answered,
\* then after both have settled, in either order, currentDocuments and the
\* rendered grid are the list returned for the one issued last.
C26_LatestDocumentListWins ==
    page = "documents" =>
        \A i \in 1..Len(net), j \in 1..Len(net) :
            (/\ i < j
             /\ net[i].kind = "getDocuments" /\ net[i].handled
             /\ net[j].kind = "getDocuments" /\ net[j].handled
             /\ Len(KindOf(net, "getDocuments")) = 2)
                => LET first == loadDocumentsSettled(DocState, "ok", net[j].documents)
                       last == loadDocumentsSettled(first, "ok", net[i].documents)
                   IN  /\ last.currentDocuments = net[j].documents
                       /\ last.documentsGrid.cards = net[j].documents


\* C27: a search that is asked for is not lost: after performSearch with any
\* filter value, and after loadLawyers(p) for any page of the pagination, the
\* request for that search is in flight (nothing is queued, so a search that is
\* not in flight will not be displayed).
C27_NoSearchLost ==
    page = "lawyers" =>
        /\ \A v \in {""} \cup Range(specializations) :
               LET s == performSearch([LawState EXCEPT !.specializationFilter = v])
               IN  \E k \in 1..Len(net \o s.out) :
                       (net \o s.out)[k] =
                           LawReq("search", 0, [page |-> 1, specialization |-> v,
                                                per_page |-> per_page])
        /\ \A p \in 1..totalPages :
               LET s == loadLawyers(LawState, p)
               IN  \E k \in 1..Len(net \o s.out) :
                       (net \o s.out)[k] =
                           LawReq("search", 0, [page |-> p,
                                                specialization |-> specializationFilter,
                                                per_page |-> per_page])


\* C28: when a document-list request in flight fails (rejected, or
\* success:false), the grid shows the empty state, currentDocuments is empty, and
\* a filterDocuments call that follows displays no document.
C28_FailedLoadLeavesNoDocuments ==
    page = "documents" =>
        \A i \in 1..Len(net), status \in {"fail", "reject"} :
            net[i].kind = "getDocuments" =>
                LET s == loadDocumentsSettled(DocState, status, net[i].documents)
                IN  /\ s.documentsGrid.cards = <<>>
                    /\ s.currentDocuments = <<>>
                    /\ \A t \in SearchTerms :
                           filterDocuments(s, t).documentsGrid.cards = <<>>


\* C29: once the verify call and every search have settled and a user is signed
\* in, every card of a lawyer with no connection status and an id other than the
\* user's has a Connect button.
C29_ConnectButtonAfterVerifyAndSearch ==
    (/\ page = "lawyers"
     /\ KindOf(net, "verify") = <<>>
     /\ KindOf(net, "search") = <<>>
     /\ currentUser # NoUser)
        => \A k \in 1..Len(lawyersGrid) :
               (/\ lawyersGrid[k].lawyer.connection_status = ""
                /\ lawyersGrid[k].lawyer.id # currentUser.id)
                   => lawyersGrid[k].connect


(***************************************************************************)
(* Claims: pagination clicks                                                *)
(***************************************************************************)
\* what a click on the link of item issues
clickRequests(item) == paginationClick(LawState, item).out

====
